---- MODULE Spec2Model ----
(***************************************************************************)
(* A model of the tracing core of slope (src/slope/core.py) and of its     *)
(* earlier revisions (src/myad, src/slope/ops.py): the trace stack and the *)
(* dispatcher, the typechecker of Programs, partial evaluation,            *)
(* transposition and the operator rules.                                   *)
(***************************************************************************)
EXTENDS Integers, Sequences, FiniteSets, TLC

VARIABLES
    trace_stack,    \* Machine.trace_stack: sequence of MainTrace records
    dynamic_trace,  \* Machine.dynamic_trace: a MainTrace or NoMain
    frames,         \* the transformations whose with-block is open, outermost first
    exc,            \* TRUE while an exception propagates up the call stack
    exit_rec,       \* the last exit of a transformation entry point
    bind_rec,       \* the last call of bind
    raise_rec,      \* the last call of full_raise
    typ_rec,        \* the last call of a binary operator's typecheck rule
    adj_rec,        \* the last application of an operator's jvp and T rules
    program,        \* the Program handed to the checker and the interpreters
    tc_rec,         \* the last call of typecheck_program
    pe_rec,         \* the last call of partial_run_program
    ct_rec,         \* the last call of run_program_transposed
    trees,          \* the structured arguments handed to tree_flatten or to a transformation
    tree_rec,       \* the last tree_flatten and the tree_unflatten of its result
    call_rec,       \* the last call of vmap, jvp, f_lin of linearize or f_vjp of vjp
    builder,        \* the ProgramBuilder of the make_program under way
    builder_tracers_in, \* the tracers make_program made for the parameters, in order
    build_rec,      \* the last call of ProgramBuilder.build, and _inline_literals applied again
    pe_trace,       \* the tracers and drafts of the partial_run_flat under way
    pe_tracers_in,  \* the tracers partial_run_flat made for the pvals_in, in order
    tp_rec,         \* the last call of tracers_to_program
    use_rec,        \* the last operation applied to the Program, and the Programs it returned
    dag,            \* a graph handed to toposort: dag[n] is the list parents(n) returns
    ts_rec,         \* the last call of toposort
    lower_rec,      \* the last call of full_lower
    lifted,         \* the calls of ProgramTrace.pure so far: the object and the tracer returned
    jit_cache,      \* the cache of make_program: the keys and the results, oldest first
    jit_calls       \* the calls of a jit-wrapped function so far

traceVars == <<trace_stack, dynamic_trace, frames, exc, exit_rec, bind_rec, raise_rec>>

opVars == <<typ_rec, adj_rec>>

irVars == <<program, tc_rec, pe_rec, ct_rec>>

treeVars == <<trees, tree_rec, call_rec>>

buildVars == <<builder, builder_tracers_in, build_rec>>

draftVars == <<pe_trace, pe_tracers_in, tp_rec>>

frameVars == <<use_rec>>

sortVars == <<dag, ts_rec>>

lowerVars == <<lower_rec>>

liftVars == <<lifted>>

jitVars == <<jit_cache, jit_calls>>

restVars == <<sortVars, lowerVars, liftVars, jitVars>>

otherVars == <<treeVars, buildVars, draftVars, frameVars, restVars>>

vars == <<traceVars, opVars, irVars, otherVars>>

-----------------------------------------------------------------------------
(* Bounds of the model *)

MaxDepth == 3
MaxOpen == 2
MaxStale == 1
MaxDim == 3
MaxRank == 2
MaxAbs == 1
MaxIn == 2
MaxInstr == 2
MaxOuts == 2
MaxArg == 2
MaxLeaf == 2
MaxKey == 2
MaxChildren == 2
MaxNest == 2
MaxConsts == 2
MaxLifts == 3
MaxCalls == 3
MaxTracers == 4
MaxPeTracers == 6
MaxNodes == 4
MaxParents == 2
MaxOutNodes == 3

-----------------------------------------------------------------------------
(* Generic helpers *)

Range(s) == {s[i] : i \in 1..Len(s)}

-----------------------------------------------------------------------------
(* AbstractValues and the typecheck rule of the binary operators *)

Typecheckor(shape, dtype) == [shape |-> shape, dtype |-> dtype]

AVals ==
    {Typecheckor(shape, dtype) : shape \in UNION {[1..n -> 1..MaxDim] : n \in 0..MaxRank}, dtype \in {"f32", "i32"}}

Ones(n) == [i \in 1..n |-> 1]

TypesOut(avals) == [err |-> "none", avals |-> avals]

TypeErr(name) == [err |-> name, avals |-> <<>>]

\* Operator.binary.typecheck of core.py; x_is_tensor: x is a Tensor, which has reshape,
\* and not a Typecheckor, which has none
binary_typecheck(x, y, x_is_tensor) ==
    LET shape_delta == Len(x.shape) - Len(y.shape)
        void_x == IF shape_delta < 0 THEN Typecheckor(Ones(-shape_delta) \o x.shape, x.dtype) ELSE x
        void_y == IF shape_delta > 0 THEN Typecheckor(Ones(shape_delta) \o y.shape, y.dtype) ELSE y
        shape_ret == [i \in 1..Len(void_x.shape) |-> IF void_x.shape[i] > void_y.shape[i] THEN void_x.shape[i] ELSE void_y.shape[i]]
        bcast_x == IF void_x.shape # shape_ret THEN Typecheckor(shape_ret, void_x.dtype) ELSE void_x
        bcast_y == IF void_y.shape # shape_ret THEN Typecheckor(shape_ret, void_y.dtype) ELSE void_y
    IN  IF x = y THEN TypesOut(<<x>>)
        ELSE IF shape_delta < 0 /\ ~x_is_tensor THEN TypeErr("AttributeError")
        ELSE IF void_x = void_y THEN TypesOut(<<void_x>>)
        ELSE IF bcast_x # bcast_y THEN TypeErr("TypeError")
        ELSE TypesOut(<<bcast_x>>)

\* BinaryOp.shape_eval of myad/ops.py and slope/ops.py
shape_eval(x, y) ==
    IF x # y THEN TypeErr("TypeError") ELSE TypesOut(<<Typecheckor(x.shape, x.dtype)>>)

NoTyp == [called |-> FALSE, rule |-> "none", x |-> Typecheckor(<<>>, "f32"),
          y |-> Typecheckor(<<>>, "f32"), x_is_tensor |-> FALSE, result |-> TypeErr("none")]

-----------------------------------------------------------------------------
(* The jvp and T rules of Neg, Add, Sub, Mul, Div, over exact rationals <<n, d>> *)

Q(n) == <<n, 1>>

QAdd(a, b) == <<a[1] * b[2] + b[1] * a[2], a[2] * b[2]>>

QNeg(a) == <<-a[1], a[2]>>

QMul(a, b) == <<a[1] * b[1], a[2] * b[2]>>

QDiv(a, b) == <<a[1] * b[2], a[2] * b[1]>>

QEq(a, b) == a[1] * b[2] = b[1] * a[2]

\* the tangent output of Op.jvp(primals, tangents)
jvp(rev, op, x, y, x_dot, y_dot) ==
    CASE op = "Neg" -> QNeg(x_dot)
      [] op = "Add" -> QAdd(x_dot, y_dot)
      [] op = "Sub" -> IF rev = "myad" THEN QAdd(x_dot, y_dot) ELSE QAdd(x_dot, QNeg(y_dot))
      [] op = "Mul" -> QAdd(QMul(x_dot, y), QMul(y_dot, x))
      [] op = "Div" -> QAdd(QDiv(x_dot, y), QMul(QMul(QNeg(y_dot), x), QDiv(Q(1), QMul(y, y))))

None == <<0, 0>>

\* Op.T(cts, x, y): the cotangents of the inputs, None where the rule returns None
T_rule(rev, op, z_bar, x, y, x_undef, y_undef) ==
    CASE op = "Neg" -> <<QNeg(z_bar)>>
      [] op = "Add" -> <<z_bar, z_bar>>
      [] op = "Sub" -> <<z_bar, QNeg(z_bar)>>
      [] op = "Mul" -> IF x_undef THEN <<QMul(z_bar, y), None>> ELSE <<None, QMul(x, z_bar)>>
      [] op = "Div" -> <<QDiv(z_bar, y), None>>

NoAdj == [called |-> FALSE, rev |-> "none", op |-> "none", undef |-> <<>>, v |-> Q(0), u |-> <<>>,
          tangent_out |-> Q(0), cts |-> <<>>]

-----------------------------------------------------------------------------
(* Programs, and typecheck_program *)

Var(id, aval) == [kind |-> "Var", id |-> id, aval |-> aval, val |-> 0]

Lit(val) == [kind |-> "Lit", id |-> 0, aval |-> Typecheckor(<<>>, "f32"), val |-> val]

Instruction(op, inputs, params, out_binders) ==
    [op |-> op, inputs |-> inputs, params |-> params, out_binders |-> out_binders]

Program(in_binders, instructions, outs) ==
    [in_binders |-> in_binders, instructions |-> instructions, outs |-> outs]

NoProgram == Program(<<>>, <<>>, <<>>)

UnaryOps == {"neg"}

BinaryOps == {"add", "sub", "mul"}

ProgramType(in_types, out_types) == [err |-> "none", in_types |-> in_types, out_types |-> out_types]

ProgramErr(name) == [err |-> name, in_types |-> <<>>, out_types |-> <<>>]

typecheck_atom(environment, x) ==
    IF x.kind = "Var" /\ x \notin environment THEN TypeErr("TypeError") ELSE TypesOut(<<x.aval>>)

\* [typecheck_atom(environment, x) for x in xs]
RECURSIVE typecheck_atoms(_, _)
typecheck_atoms(environment, xs) ==
    IF xs = <<>> THEN TypesOut(<<>>)
    ELSE LET fst == typecheck_atom(environment, Head(xs))
             rest == typecheck_atoms(environment, Tail(xs))
         IN  IF fst.err # "none" THEN fst
             ELSE IF rest.err # "none" THEN rest
             ELSE TypesOut(fst.avals \o rest.avals)

\* the loops that add binders to the environment
RECURSIVE add_binders(_, _)
add_binders(binders, environment) ==
    IF binders = <<>> THEN [err |-> "none", environment |-> environment]
    ELSE IF Head(binders) \in environment THEN [err |-> "TypeError", environment |-> environment]
    ELSE add_binders(Tail(binders), environment \cup {Head(binders)})

RECURSIVE typecheck_program(_)
RECURSIVE typecheck_instructions(_, _)

\* jit_op.typecheck(*in_types, program); an in_type read from a Lit is a Tensor, which no
\* Typecheckor equals
jit_op_typecheck(inputs, in_types, jit_program) ==
    LET compared(program_type) ==
            IF program_type.err # "none" THEN TypeErr(program_type.err)
            ELSE IF \E i \in 1..Len(in_types) :
                       /\ i <= Len(program_type.in_types)
                       /\ (program_type.in_types[i] # in_types[i] \/ inputs[i].kind = "Lit")
                 THEN TypeErr("TypeError")
            ELSE TypesOut(program_type.out_types)
    IN  compared(typecheck_program(jit_program))

\* instruction.op.typecheck(*in_types, **instruction.params)
op_typecheck(instruction, in_types) ==
    CASE instruction.op \in UnaryOps -> TypesOut(<<Typecheckor(in_types[1].shape, in_types[1].dtype)>>)
      [] instruction.op \in BinaryOps ->
            binary_typecheck(in_types[1], in_types[2], instruction.inputs[1].kind = "Lit")
      [] instruction.op = "jit_op" -> jit_op_typecheck(instruction.inputs, in_types, instruction.params[1])

\* a faulty comparison of recomputed and declared types: nothing is compared
declared_types_differ_never(out_binders, out_types) == FALSE

declared_types_differ(out_binders, out_types) ==
    \E i \in 1..Len(out_binders) : out_types[i] # out_binders[i].aval

typecheck_instructions(instructions, environment) ==
    IF instructions = <<>> THEN [err |-> "none", environment |-> environment]
    ELSE LET instruction == Head(instructions)
             failed(name) == [err |-> name, environment |-> environment]
             added(bound) ==
                 IF bound.err # "none" THEN failed(bound.err)
                 ELSE typecheck_instructions(Tail(instructions), bound.environment)
             declared(out_types) ==
                 IF out_types.err # "none" THEN failed(out_types.err)
                 ELSE IF Len(out_types.avals) # Len(instruction.out_binders) THEN failed("AssertionError")
                 ELSE IF declared_types_differ(instruction.out_binders, out_types.avals)
                      THEN failed("TypeError")
                 ELSE added(add_binders(instruction.out_binders, environment))
             typed(in_types) ==
                 IF in_types.err # "none" THEN failed(in_types.err)
                 ELSE declared(op_typecheck(instruction, in_types.avals))
         IN  typed(typecheck_atoms(environment, instruction.inputs))

typecheck_program(prog) ==
    LET returned(out_types) ==
            IF out_types.err # "none" THEN ProgramErr(out_types.err)
            ELSE ProgramType([i \in 1..Len(prog.in_binders) |-> prog.in_binders[i].aval], out_types.avals)
        walked(body) ==
            IF body.err # "none" THEN ProgramErr(body.err)
            ELSE returned(typecheck_atoms(body.environment, prog.outs))
        bound(ins) ==
            IF ins.err # "none" THEN ProgramErr(ins.err)
            ELSE walked(typecheck_instructions(prog.instructions, ins.environment))
    IN  bound(add_binders(prog.in_binders, {}))

NoTc == [called |-> FALSE, result |-> ProgramErr("none")]

-----------------------------------------------------------------------------
(* run_program and partial_run_program *)

\* the numpy implementations of the operators
run_impl(op, in_vals) ==
    CASE op = "neg" -> <<-in_vals[1]>>
      [] op = "add" -> <<in_vals[1] + in_vals[2]>>
      [] op = "sub" -> <<in_vals[1] - in_vals[2]>>
      [] op = "mul" -> <<in_vals[1] * in_vals[2]>>

\* list_map(write, binders, vals)
write_all(environment, binders, vals) ==
    [v \in DOMAIN environment \cup Range(binders) |->
        IF \E i \in 1..Len(binders) : binders[i] = v
        THEN vals[CHOOSE i \in 1..Len(binders) : binders[i] = v /\ \A j \in (i + 1)..Len(binders) : binders[j] # v]
        ELSE environment[v]]

read_all(environment, atoms) ==
    [i \in 1..Len(atoms) |-> IF atoms[i].kind = "Var" THEN environment[atoms[i]] ELSE atoms[i].val]

RECURSIVE run_instructions(_, _)
run_instructions(instructions, environment) ==
    IF instructions = <<>> THEN environment
    ELSE LET instruction == Head(instructions)
             outs == run_impl(instruction.op, read_all(environment, instruction.inputs))
         IN  run_instructions(Tail(instructions), write_all(environment, instruction.out_binders, outs))

run_program(prog, args) ==
    read_all(run_instructions(prog.instructions, write_all(<<>>, prog.in_binders, args)), prog.outs)

\* read of partial_run_program: a Var is unknown as the environment says, a Lit is known
read_unk(environment, atoms) ==
    [i \in 1..Len(atoms) |-> atoms[i].kind = "Var" /\ environment[atoms[i]]]

\* a faulty default rule: the outputs are unknown only when every input is unknown
partial_run_instruction_all(unks_in, instruction) ==
    IF \A i \in 1..Len(unks_in) : unks_in[i]
    THEN [err |-> "none", instruction1 |-> <<>>, instruction2 |-> <<instruction>>,
          unks_out |-> [i \in 1..Len(instruction.out_binders) |-> TRUE],
          res |-> {}]
    ELSE [err |-> "none", instruction1 |-> <<instruction>>, instruction2 |-> <<>>,
          unks_out |-> [i \in 1..Len(instruction.out_binders) |-> FALSE], res |-> {}]

\* Operator.partial_run_instruction, the default rule; it raises nothing
partial_run_instruction(unks_in, instruction) ==
    IF \E i \in 1..Len(unks_in) : unks_in[i]
    THEN [err |-> "none", instruction1 |-> <<>>, instruction2 |-> <<instruction>>,
          unks_out |-> [i \in 1..Len(instruction.out_binders) |-> TRUE],
          res |-> {instruction.inputs[i] : i \in {j \in 1..Len(unks_in) :
                                                    ~unks_in[j] /\ instruction.inputs[j].kind = "Var"}}]
    ELSE [err |-> "none", instruction1 |-> <<instruction>>, instruction2 |-> <<>>,
          unks_out |-> [i \in 1..Len(instruction.out_binders) |-> FALSE], res |-> {}]

\* partition_list(bs, l): the elements whose flag is False, and those whose flag is True
RECURSIVE partition_list(_, _)
partition_list(bs, l) ==
    IF l = <<>> THEN <<<<>>, <<>>>>
    ELSE LET rest == partition_list(Tail(bs), Tail(l))
         IN  IF Head(bs) THEN <<rest[1], <<Head(l)>> \o rest[2]>> ELSE <<<<Head(l)>> \o rest[1], rest[2]>>

NoInstantiate == [given |-> FALSE, flags |-> <<>>]

\* the orders in which a set can be listed
Listings(S) == {l \in [1..Cardinality(S) -> S] : \A i, j \in 1..Cardinality(S) : l[i] = l[j] => i = j}

typecheck_partial_run_program(prog, in_unknowns, out_unknowns, program1, program2) ==
    LET compared(programty, program1ty, program2ty, a, b) ==
            LET res == SubSeq(program1ty.out_types, Len(b[1]) + 1, Len(program1ty.out_types))
            IN  IF \/ program1ty.in_types # a[1]
                   \/ program2ty.out_types # b[2]
                   \/ b[1] # SubSeq(program1ty.out_types, 1, Len(b[1]))
                   \/ res # SubSeq(program2ty.in_types, 1, Len(res))
                   \/ a[2] # SubSeq(program2ty.in_types, Len(res) + 1, Len(program2ty.in_types))
                THEN "TypeError"
                ELSE "none"
        typed(programty, program1ty, program2ty) ==
            IF programty.err # "none" THEN programty.err
            ELSE IF program1ty.err # "none" THEN program1ty.err
            ELSE IF program2ty.err # "none" THEN program2ty.err
            ELSE compared(programty, program1ty, program2ty,
                          partition_list(in_unknowns, programty.in_types),
                          partition_list(out_unknowns, programty.out_types))
    IN  typed(typecheck_program(prog), typecheck_program(program1), typecheck_program(program2))

\* a faulty program1: the residuals come before the known outputs
program1_residuals_first(ins1, instructions1, outs1, residuals) ==
    Program(ins1, instructions1, residuals \o outs1)

\* program1 of partial_run_program: its outputs are the known outputs, then the residuals
program1_of(ins1, instructions1, outs1, residuals) ==
    Program(ins1, instructions1, outs1 \o residuals)

RECURSIVE partial_run_instructions(_, _)
RECURSIVE residuals_of(_, _, _)
RECURSIVE partial_run_program(_, _, _, _)

\* the result of a partial_run_program that raised
PartialErr(name) ==
    [err |-> name, program1 |-> NoProgram, program2 |-> NoProgram, out_unknowns |-> <<>>, num_res |-> 0]

\* jit_op.partial_run_instruction, its first two lines: the Program of the instruction is
\* split; the inner call lists its residuals in some order
jit_op_halves(unks_in, instruction) ==
    LET listed(residuals) ==
            partial_run_program(instruction.params[1], unks_in, NoInstantiate,
                                CHOOSE l \in Listings(residuals) : TRUE)
    IN  listed(residuals_of(instruction.params[1], unks_in, NoInstantiate))

\* jit_op.partial_run_instruction, the lines after: a new Var is made for each residual of
\* the inner Program, with a number no other Var of the Program has; res lists the new Vars
jit_op_instructions(unks_in, instruction, halves) ==
    LET made(ins, out_binders, res) ==
            [err |-> "none",
             instruction1 |-> <<Instruction("jit_op", ins[1], <<halves.program1>>, out_binders[1] \o res)>>,
             instruction2 |-> <<Instruction("jit_op", res \o ins[2], <<halves.program2>>, out_binders[2])>>,
             unks_out |-> halves.out_unknowns,
             res |-> res]
    IN  IF halves.err # "none"
        THEN [err |-> halves.err, instruction1 |-> <<>>, instruction2 |-> <<>>, unks_out |-> <<>>,
              res |-> <<>>]
        ELSE made(partition_list(unks_in, instruction.inputs),
                  partition_list(halves.out_unknowns, instruction.out_binders),
                  [j \in 1..halves.num_res |->
                      Var(10 * instruction.out_binders[1].id + j, halves.program2.in_binders[j].aval)])

\* a faulty rule of jit_op: the Vars that carry the residuals are not reported
jit_op_partial_run_instruction_no_res(unks_in, instruction) ==
    LET reported(rule) == [rule EXCEPT !.res = {}]
    IN  reported(jit_op_instructions(unks_in, instruction, jit_op_halves(unks_in, instruction)))

\* jit_op.partial_run_instruction
jit_op_partial_run_instruction(unks_in, instruction) ==
    LET reported(rule) == [rule EXCEPT !.res = Range(@)]
    IN  reported(jit_op_instructions(unks_in, instruction, jit_op_halves(unks_in, instruction)))

\* the loop of partial_run_program over the instructions; err is the exception a rule raised
partial_run_instructions(instructions, environment) ==
    IF instructions = <<>>
    THEN [err |-> "none", instructions1 |-> <<>>, instructions2 |-> <<>>, residuals |-> {},
          environment |-> environment]
    ELSE LET instruction == Head(instructions)
             unks_in == read_unk(environment, instruction.inputs)
             joined(rule, rest) ==
                 [err |-> rest.err,
                  instructions1 |-> rule.instruction1 \o rest.instructions1,
                  instructions2 |-> rule.instruction2 \o rest.instructions2,
                  residuals |-> rule.res \cup rest.residuals,
                  environment |-> rest.environment]
             applied(rule) ==
                 IF rule.err # "none"
                 THEN [err |-> rule.err, instructions1 |-> <<>>, instructions2 |-> <<>>,
                       residuals |-> {}, environment |-> environment]
                 ELSE joined(rule, partial_run_instructions(Tail(instructions),
                                      write_all(environment, instruction.out_binders, rule.unks_out)))
         IN  applied(IF instruction.op = "jit_op"
                     THEN jit_op_partial_run_instruction(unks_in, instruction)
                     ELSE partial_run_instruction(unks_in, instruction))

\* the known outputs that instantiate marks, those that are Vars
instantiated(prog, environment, instantiate) ==
    IF instantiate.given
    THEN {prog.outs[i] : i \in {j \in 1..Len(prog.outs) :
                                   /\ instantiate.flags[j]
                                   /\ prog.outs[j].kind = "Var"
                                   /\ ~environment[prog.outs[j]]}}
    ELSE {}

\* a faulty residual set: the known outputs that instantiate marks are left out
residuals_of_propagation(prog, in_unknowns, instantiate) ==
    LET reported(walk) == IF walk.err # "none" THEN {} ELSE walk.residuals
    IN  reported(partial_run_instructions(prog.instructions,
                                          write_all(<<>>, prog.in_binders, in_unknowns)))

\* the residual set of partial_run_program, before list(residuals) orders it
residuals_of(prog, in_unknowns, instantiate) ==
    LET reported(walk) ==
            IF walk.err # "none" THEN {}
            ELSE walk.residuals \cup instantiated(prog, walk.environment, instantiate)
    IN  reported(partial_run_instructions(prog.instructions,
                                          write_all(<<>>, prog.in_binders, in_unknowns)))

\* partial_run_program; residuals is the order in which list(residuals) lists the set
partial_run_program(prog, in_unknowns, instantiate, residuals) ==
    LET returned(out_unknowns, program1, program2) ==
            [err |-> typecheck_partial_run_program(prog, in_unknowns, out_unknowns, program1, program2),
             program1 |-> program1, program2 |-> program2,
             out_unknowns |-> out_unknowns, num_res |-> Len(residuals)]
        parted(walk, out_unknowns, ins, outs) ==
            returned(out_unknowns,
                     program1_of(ins[1], walk.instructions1, outs[1], residuals),
                     Program(residuals \o ins[2], walk.instructions2, outs[2]))
        flagged(walk, out_unknowns) ==
            parted(walk, out_unknowns, partition_list(in_unknowns, prog.in_binders),
                   partition_list(out_unknowns, prog.outs))
        walked(walk) ==
            IF walk.err # "none" THEN PartialErr(walk.err)
            ELSE flagged(walk, [i \in 1..Len(prog.outs) |->
                                  \/ prog.outs[i].kind = "Var" /\ walk.environment[prog.outs[i]]
                                  \/ instantiate.given /\ instantiate.flags[i]])
    IN  walked(partial_run_instructions(prog.instructions,
                                        write_all(<<>>, prog.in_binders, in_unknowns)))

NoPe == [called |-> FALSE, in_unknowns |-> <<>>, instantiate |-> NoInstantiate, args |-> <<>>,
         result |-> [err |-> "none", program1 |-> NoProgram, program2 |-> NoProgram,
                     out_unknowns |-> <<>>, num_res |-> 0]]

(* run_program_transposed *)

PrimalProxy == [proxy |-> TRUE, val |-> Q(0)]

Primal(val) == [proxy |-> FALSE, val |-> val]

\* the class of slope/ops.py whose T rule transposes the operator
OpClass(op) ==
    CASE op = "neg" -> "Neg" [] op = "add" -> "Add" [] op = "sub" -> "Sub" [] op = "mul" -> "Mul"

read_primal(primal_environment, x) ==
    IF x.kind = "Lit" THEN Primal(Q(x.val))
    ELSE IF x \in DOMAIN primal_environment THEN primal_environment[x]
    ELSE PrimalProxy

\* a faulty write_cotangent: a later contribution replaces the one written before
RECURSIVE write_cotangents_overwrite(_, _, _)
write_cotangents_overwrite(ct_environment, atoms, vals) ==
    IF atoms = <<>> THEN ct_environment
    ELSE LET x == Head(atoms)
             val == Head(vals)
             written == IF x.kind # "Var" \/ val = None THEN ct_environment
                        ELSE IF x \in DOMAIN ct_environment
                             THEN [ct_environment EXCEPT ![x] = val]
                        ELSE (x :> val) @@ ct_environment
         IN  write_cotangents_overwrite(written, Tail(atoms), Tail(vals))

\* list_map(write_cotangent, atoms, vals)
RECURSIVE write_cotangents(_, _, _)
write_cotangents(ct_environment, atoms, vals) ==
    IF atoms = <<>> THEN ct_environment
    ELSE LET x == Head(atoms)
             val == Head(vals)
             written == IF x.kind # "Var" \/ val = None THEN ct_environment
                        ELSE IF x \in DOMAIN ct_environment
                             THEN [ct_environment EXCEPT ![x] = QAdd(ct_environment[x], val)]
                        ELSE (x :> val) @@ ct_environment
         IN  write_cotangents(written, Tail(atoms), Tail(vals))

\* read_cotangent(v): pops the cotangent of v, zeros when it has none
read_cotangent(ct_environment, v) == IF v \in DOMAIN ct_environment THEN ct_environment[v] ELSE Q(0)

\* the loop of run_program_transposed over program.instructions[::-1]; log lists, for each
\* instruction the loop visited, the cotangents it read and the cotangents its T rule returned
RECURSIVE transpose_instructions(_, _, _)
transpose_instructions(reversed, primal_environment, ct_environment) ==
    IF reversed = <<>> THEN [err |-> "none", ct_environment |-> ct_environment, log |-> <<>>]
    ELSE LET instruction == Head(reversed)
             primals_in == [i \in 1..Len(instruction.inputs) |->
                               read_primal(primal_environment, instruction.inputs[i])]
             cts_in == [i \in 1..Len(instruction.out_binders) |->
                           read_cotangent(ct_environment, instruction.out_binders[i])]
             popped == [v \in DOMAIN ct_environment \ Range(instruction.out_binders) |-> ct_environment[v]]
             padded == primals_in \o <<Primal(Q(0))>>
             cts_out == T_rule("slope", OpClass(instruction.op), cts_in[1], padded[1].val, padded[2].val,
                               padded[1].proxy, padded[2].proxy)
             visited(rest) ==
                 [rest EXCEPT !.log = <<[instruction |-> instruction, cts_in |-> cts_in,
                                         cts_out |-> cts_out]>> \o @]
         IN  IF instruction.op = "mul" /\ padded[1].proxy = padded[2].proxy
             THEN [err |-> "AssertionError", ct_environment |-> popped, log |-> <<>>]
             ELSE visited(transpose_instructions(Tail(reversed), primal_environment,
                                                 write_cotangents(popped, instruction.inputs, cts_out)))

\* a faulty returned list: the cotangent of every input, PrimalProxy or not
returned_cotangents_all(in_binders, args, ct_environment) ==
    [i \in 1..Len(in_binders) |-> read_cotangent(ct_environment, in_binders[i])]

\* [read_cotangent(v) for v, x in list_zip(program.in_binders, args) if type(x) is PrimalProxy]
RECURSIVE returned_cotangents(_, _, _)
returned_cotangents(in_binders, args, ct_environment) ==
    IF in_binders = <<>> THEN <<>>
    ELSE LET rest == returned_cotangents(Tail(in_binders), Tail(args), ct_environment)
         IN  IF Head(args).proxy THEN <<read_cotangent(ct_environment, Head(in_binders))>> \o rest ELSE rest

\* a faulty reversal, list.reverse(): the list handed in is itself reversed
reversed_in_place(lst) ==
    [value |-> [i \in 1..Len(lst) |-> lst[Len(lst) + 1 - i]],
     list |-> [i \in 1..Len(lst) |-> lst[Len(lst) + 1 - i]]]

\* lst[::-1]: the value is a new list, and the list handed in is left as it was
slice_reversed(lst) == [value |-> [i \in 1..Len(lst) |-> lst[Len(lst) + 1 - i]], list |-> lst]

run_program_transposed(prog, args, cotangents) ==
    LET known == {i \in 1..Len(prog.in_binders) : ~args[i].proxy}
        primal_environment == [v \in {prog.in_binders[i] : i \in known} |->
                                  args[CHOOSE i \in known : prog.in_binders[i] = v]]
        walk == transpose_instructions(slice_reversed(prog.instructions).value, primal_environment,
                                       write_cotangents(<<>>, prog.outs, cotangents))
    IN  [err |-> walk.err, ct_environment |-> walk.ct_environment, log |-> walk.log,
         ret |-> IF walk.err = "none"
                 THEN returned_cotangents(prog.in_binders, args, walk.ct_environment) ELSE <<>>]

NoCt == [called |-> FALSE, args |-> <<>>, cotangents |-> <<>>,
         result |-> [err |-> "none", ct_environment |-> <<>>, log |-> <<>>, ret |-> <<>>]]

-----------------------------------------------------------------------------
(* ProgramTrace and ProgramBuilder *)

\* a ProgramBuilder: tracers lists the avals of the ProgramTracors in creation order, and a
\* tracer is named by its place in that list; tracer_to_var maps tracers to Vars,
\* const_tracers maps id(val) to a tracer, constvals lists (Var, val) in insertion order
ProgramBuilder == [instructions |-> <<>>, tracer_to_var |-> <<>>, const_tracers |-> <<>>,
                   constvals |-> <<>>, tracers |-> <<>>]

\* builder.new_tracer(trace, aval); the new tracer is the last of tracers
new_tracer(self, aval) == [self EXCEPT !.tracers = Append(@, aval)]

\* a faulty add_var: the Var made for the first tracer is handed out again
add_var_shared(self, tracer) ==
    [self EXCEPT !.tracer_to_var = @ @@ (tracer :> Var(1, self.tracers[tracer]))]

\* builder.add_var(tracer): a fresh Var, different from every Var made before
add_var(self, tracer) ==
    [self EXCEPT !.tracer_to_var =
        @ @@ (tracer :> Var(Cardinality(DOMAIN self.tracer_to_var) + 1, self.tracers[tracer]))]

\* ProgramTrace.new_arg(aval)
new_arg(self, aval) ==
    LET made == new_tracer(self, aval) IN add_var(made, Len(made.tracers))

\* builder.add_const(tracer, val)
add_const(self, tracer, val) ==
    LET bound == add_var(self, tracer)
    IN [bound EXCEPT !.const_tracers = @ @@ (val.id :> tracer),
                     !.constvals = Append(@, [var |-> bound.tracer_to_var[tracer], val |-> val])]

\* a faulty pure that never looks the object up: every call makes a new constant
get_or_make_const_tracer_new(self, val) ==
    LET made == new_tracer(self, Typecheckor(val.shape, val.dtype))
    IN add_const(made, Len(made.tracers), val)

\* ProgramTrace.pure(val): the tracer made for this very object before, or a new constant
get_or_make_const_tracer(self, val) ==
    IF val.id \in DOMAIN self.const_tracers
    THEN self
    ELSE LET made == new_tracer(self, Typecheckor(val.shape, val.dtype))
         IN add_const(made, Len(made.tracers), val)

\* a faulty run_op that puts the new Instruction in front of the list
ProgramTrace_run_op_prepend(self, op, tracers) ==
    LET inputs == [i \in 1..Len(tracers) |-> self.tracer_to_var[tracers[i]]]
        out_tracer == Len(self.tracers) + 1
        added(bound) ==
            [bound EXCEPT !.instructions =
                <<Instruction(op, inputs, <<>>, <<bound.tracer_to_var[out_tracer]>>)>> \o @]
    IN  added(add_var(new_tracer(self, self.tracers[tracers[1]]), out_tracer))

\* ProgramTrace.run_op(op, tracers, params), for the operators without params
ProgramTrace_run_op(self, op, tracers) ==
    LET avals_in == [i \in 1..Len(tracers) |-> self.tracers[tracers[i]]]
        inputs == [i \in 1..Len(tracers) |-> self.tracer_to_var[tracers[i]]]
        out_tracer == Len(self.tracers) + 1
        added(bound) ==
            [bound EXCEPT !.instructions =
                Append(@, Instruction(op, inputs, <<>>, <<bound.tracer_to_var[out_tracer]>>))]
        typed(avals_out) ==
            IF avals_out.err # "none" THEN self
            ELSE added(add_var(new_tracer(self, avals_out.avals[1]), out_tracer))
    IN  typed(op_typecheck(Instruction(op, inputs, <<>>, <<>>), avals_in))

\* split_list(lst, n)
split_list(lst, n) == <<SubSeq(lst, 1, n), SubSeq(lst, n + 1, Len(lst))>>

BuildErr(name) == [err |-> name, program |-> NoProgram, num_consts |-> 0, consts |-> <<>>]

\* a faulty lookup: the binders are removed and their uses are left as they are
literal_or_kept(lit_binders, lit_vals, x) == x

\* literals.get(x, x)
literal_or(lit_binders, lit_vals, x) ==
    IF \E i \in 1..Len(lit_binders) : lit_binders[i] = x
    THEN Lit(lit_vals[CHOOSE i \in 1..Len(lit_binders) : lit_binders[i] = x].val)
    ELSE x

\* a faulty partition of the constants: none is taken for a Python scalar
scalars_of_none(consts) == [i \in 1..Len(consts) |-> FALSE]

\* a faulty partition of the constants: only the first Python scalar is taken
scalars_of_first(consts) ==
    [i \in 1..Len(consts) |-> consts[i].python /\ \A j \in 1..(i - 1) : ~consts[j].python]

\* scalars = [type(x) in Tracor.PYTHON_TYPES and not get_aval(x).shape for x in consts]
scalars_of(consts) == [i \in 1..Len(consts) |-> consts[i].python /\ consts[i].shape = <<>>]

\* ProgramBuilder._inline_literals(program, consts); num_consts is the field of the Program
\* returned, carried beside it
inline_literals(prog, consts) ==
    LET binders == split_list(prog.in_binders, Len(consts))
        typed(new_program, new_consts, checked) ==
            IF checked.err # "none" THEN BuildErr(checked.err)
            ELSE [err |-> "none", program |-> new_program, num_consts |-> Len(new_consts),
                  consts |-> new_consts]
        made(new_program, new_consts) == typed(new_program, new_consts, typecheck_program(new_program))
        inlined(new_const_binders, lit_binders, new_consts, lit_vals) ==
            made(Program(new_const_binders \o binders[2],
                         [k \in 1..Len(prog.instructions) |->
                             Instruction(prog.instructions[k].op,
                                         [i \in 1..Len(prog.instructions[k].inputs) |->
                                             literal_or(lit_binders, lit_vals, prog.instructions[k].inputs[i])],
                                         prog.instructions[k].params,
                                         prog.instructions[k].out_binders)],
                         [i \in 1..Len(prog.outs) |-> literal_or(lit_binders, lit_vals, prog.outs[i])]),
                 new_consts)
        parted(const_binders, const_vals) ==
            inlined(const_binders[1], const_binders[2], const_vals[1], const_vals[2])
    IN  parted(partition_list(scalars_of(consts), binders[1]), partition_list(scalars_of(consts), consts))

\* ProgramBuilder.build(in_tracers, out_tracers, static_args, name)
build(self, in_tracers, out_tracers) ==
    LET constvars == [i \in 1..Len(self.constvals) |-> self.constvals[i].var]
        constvals == [i \in 1..Len(self.constvals) |-> self.constvals[i].val]
        in_binders == constvars \o [i \in 1..Len(in_tracers) |-> self.tracer_to_var[in_tracers[i]]]
        out_vars == [i \in 1..Len(out_tracers) |-> self.tracer_to_var[out_tracers[i]]]
        typed(built, checked) ==
            IF checked.err # "none" THEN BuildErr(checked.err) ELSE inline_literals(built, constvals)
        made(built) == typed(built, typecheck_program(built))
    IN  made(Program(in_binders, self.instructions, out_vars))

NoBuild == [called |-> FALSE, out_tracers |-> <<>>, result |-> BuildErr("none"),
            again |-> BuildErr("none")]

BuildIdle == builder = ProgramBuilder /\ builder_tracers_in = <<>> /\ build_rec = NoBuild

-----------------------------------------------------------------------------
(* PartialEvalTrace, toposort and tracers_to_program *)

\* a PartialEvalTracor, named by its place in the list of the tracers made: pval.is_known,
\* the kind of its draft, and what the draft refers to (the InstructionDraft, or for a
\* ConstDraft the known tracer whose constant it holds)
PartialEvalTracor(known, draft, ref) == [known |-> known, draft |-> draft, ref |-> ref]

InstructionDraft(prim, tracers_in, avals_out, tracer_refs_out) ==
    [prim |-> prim, tracers_in |-> tracers_in, avals_out |-> avals_out,
     tracer_refs_out |-> tracer_refs_out]

\* the tracers and the InstructionDrafts made so far under one PartialEvalTrace
PartialEvalTrace == [tracers |-> <<>>, drafts |-> <<>>]

\* PartialEvalTrace.instantiate_const(tracer): the trace afterwards and the tracer returned
instantiate_const(self, tracer) ==
    IF ~self.tracers[tracer].known
    THEN [trace |-> self, tracer |-> tracer]
    ELSE [trace |-> [self EXCEPT !.tracers = Append(@, PartialEvalTracor(FALSE, "ConstDraft", tracer))],
          tracer |-> Len(self.tracers) + 1]

\* tracers_in = [trace.instantiate_const(t) for t in tracers]
RECURSIVE instantiate_consts(_, _)
instantiate_consts(self, tracers) ==
    IF tracers = <<>> THEN [trace |-> self, tracers |-> <<>>]
    ELSE LET first == instantiate_const(self, Head(tracers))
             rest == instantiate_consts(first.trace, Tail(tracers))
         IN [trace |-> rest.trace, tracers |-> <<first.tracer>> \o rest.tracers]

\* Operator.partial_run(trace, tracers), for an operator with one output
partial_run(self, op, tracers) ==
    LET ins == instantiate_consts(self, tracers)
        out == Len(ins.trace.tracers) + 1
        instruction == InstructionDraft(op, ins.tracers, <<Typecheckor(<<>>, "f32")>>, <<out>>)
    IN [tracers |-> Append(ins.trace.tracers,
                           PartialEvalTracor(FALSE, "InstructionDraft", Len(self.drafts) + 1)),
        drafts |-> Append(self.drafts, instruction)]

\* PartialEvalTrace.run_op(op, tracers, params): with every input known the operator runs
\* eagerly, and pure wraps its result as a known tracer without draft when it is used
PartialEvalTrace_run_op(self, op, tracers) ==
    IF \A i \in 1..Len(tracers) : self.tracers[tracers[i]].known
    THEN [self EXCEPT !.tracers = Append(@, PartialEvalTracor(TRUE, "None", 0))]
    ELSE partial_run(self, op, tracers)

\* tracer_parents of tracers_to_program, for every tracer of the trace
tracer_parents(self) ==
    [t \in 1..Len(self.tracers) |->
        IF self.tracers[t].draft = "InstructionDraft"
        THEN self.drafts[self.tracers[t].ref].tracers_in
        ELSE <<>>]

\* a faulty remove_duplicates: the list is returned as it is
remove_duplicates_none(lst) == lst

\* remove_duplicates of toposort: the first occurrence of each node is kept
RECURSIVE remove_duplicates(_)
remove_duplicates(lst) ==
    IF lst = <<>> THEN <<>>
    ELSE LET front == remove_duplicates(SubSeq(lst, 1, Len(lst) - 1))
         IN IF lst[Len(lst)] \in Range(front) THEN front ELSE Append(front, lst[Len(lst)])

\* the first loop of toposort: the stack is popped from its end
RECURSIVE count_children(_, _, _)
count_children(stack, child_counts, parents) ==
    IF stack = <<>> THEN child_counts
    ELSE LET node == stack[Len(stack)]
             rest == SubSeq(stack, 1, Len(stack) - 1)
         IN IF node \in DOMAIN child_counts
            THEN count_children(rest, [child_counts EXCEPT ![node] = @ + 1], parents)
            ELSE count_children(rest \o parents[node], child_counts @@ (node :> 1), parents)

\* for parent in parents(node): append it to childless_nodes or count it down
RECURSIVE release_parents(_, _, _)
release_parents(ps, childless_nodes, child_counts) ==
    IF ps = <<>> THEN [childless_nodes |-> childless_nodes, child_counts |-> child_counts]
    ELSE IF child_counts[Head(ps)] = 1
         THEN release_parents(Tail(ps), Append(childless_nodes, Head(ps)), child_counts)
         ELSE release_parents(Tail(ps), childless_nodes, [child_counts EXCEPT ![Head(ps)] = @ - 1])

\* the last loop of toposort
RECURSIVE sort_nodes(_, _, _, _)
sort_nodes(childless_nodes, child_counts, sorted_nodes, parents) ==
    IF childless_nodes = <<>> THEN sorted_nodes
    ELSE LET node == childless_nodes[Len(childless_nodes)]
             released == release_parents(parents[node],
                                         SubSeq(childless_nodes, 1, Len(childless_nodes) - 1),
                                         child_counts)
         IN sort_nodes(released.childless_nodes, released.child_counts,
                       Append(sorted_nodes, node), parents)

\* a faulty reversal: the list is left in the order the nodes were emitted, children first
NotReversed(lst) == lst

\* sorted_nodes[::-1]
Reverse(lst) == [i \in 1..Len(lst) |-> lst[Len(lst) + 1 - i]]

\* check_toposort(nodes, parents) does not fail its assertion
check_toposort(nodes, parents) ==
    \A i \in 1..Len(nodes) : \A k \in 1..Len(parents[nodes[i]]) :
        \E j \in 1..(i - 1) : nodes[j] = parents[nodes[i]][k]

\* Machine.toposort(out_nodes, parents), parents given as a function of the node
toposort(out_nodes, parents) ==
    LET nodes == remove_duplicates(out_nodes)
        counted == count_children(nodes, <<>>, parents)
        child_counts == [n \in DOMAIN counted |-> IF n \in Range(nodes) THEN counted[n] - 1 ELSE counted[n]]
        childless_nodes == SelectSeq(nodes, LAMBDA n : child_counts[n] = 0)
        sorted_nodes == Reverse(sort_nodes(childless_nodes, child_counts, <<>>, parents))
    IN IF out_nodes = <<>> THEN [err |-> "none", nodes |-> <<>>]
       ELSE IF ~check_toposort(sorted_nodes, parents) THEN [err |-> "AssertionError", nodes |-> <<>>]
       ELSE [err |-> "none", nodes |-> sorted_nodes]

\* draft_to_instruction(tracer_to_var, draft): the out_binders are fresh Vars
draft_to_instruction(walk, draft) ==
    LET inputs == [i \in 1..Len(draft.tracers_in) |-> walk.tracer_to_var[draft.tracers_in[i]]]
        out_binders == [i \in 1..Len(draft.avals_out) |-> Var(walk.made + i, draft.avals_out[i])]
    IN [walk EXCEPT !.tracer_to_var = [t \in Range(draft.tracer_refs_out) |->
                                           out_binders[CHOOSE i \in 1..Len(out_binders) :
                                                           draft.tracer_refs_out[i] = t]] @@ @,
                    !.made = @ + Len(out_binders),
                    !.instructions = Append(@, Instruction(draft.prim, inputs, <<>>, out_binders))]

\* the loop of tracers_to_program over the sorted tracers
RECURSIVE walk_tracers(_, _, _, _)
walk_tracers(self, nodes, tracers_in, walk) ==
    IF nodes = <<>> \/ walk.err # "none" THEN walk
    ELSE LET t == Head(nodes)
             tracer == self.tracers[t]
             draft == self.drafts[tracer.ref]
             var == Var(walk.made + 1, Typecheckor(<<>>, "f32"))
             next ==
                CASE tracer.draft = "LambdaBindingDraft" ->
                        IF t \in Range(tracers_in) THEN walk ELSE [walk EXCEPT !.err = "AssertionError"]
                  [] tracer.draft = "ConstDraft" ->
                        IF tracer.ref \in DOMAIN walk.constid_to_var
                        THEN [walk EXCEPT !.tracer_to_var = (t :> walk.constid_to_var[tracer.ref]) @@ @]
                        ELSE [walk EXCEPT !.tracer_to_var = (t :> var) @@ @,
                                          !.constid_to_var = (tracer.ref :> var) @@ @,
                                          !.constvar_to_val = Append(@, [var |-> var, val |-> tracer.ref]),
                                          !.made = @ + 1]
                  [] tracer.draft = "InstructionDraft" ->
                        IF tracer.ref \in walk.processed_instructions THEN walk
                        ELSE IF \E i \in 1..Len(draft.tracers_in) :
                                   draft.tracers_in[i] \notin DOMAIN walk.tracer_to_var
                             THEN [walk EXCEPT !.err = "KeyError"]
                        ELSE [draft_to_instruction(walk, draft)
                                 EXCEPT !.processed_instructions = @ \cup {tracer.ref}]
                  [] OTHER -> [walk EXCEPT !.err = "TypeError"]
         IN walk_tracers(self, Tail(nodes), tracers_in, next)

\* Machine.tracers_to_program(tracers_in, tracers_out)
tracers_to_program(self, tracers_in, tracers_out) ==
    LET sorted == toposort(tracers_out, tracer_parents(self))
        start == [err |-> sorted.err,
                  tracer_to_var |-> [t \in Range(tracers_in) |->
                                        Var(CHOOSE i \in 1..Len(tracers_in) : tracers_in[i] = t, Typecheckor(<<>>, "f32"))],
                  constid_to_var |-> <<>>, constvar_to_val |-> <<>>,
                  processed_instructions |-> {}, instructions |-> <<>>, made |-> Len(tracers_in)]
        walk == walk_tracers(self, sorted.nodes, tracers_in, start)
        constvars == [i \in 1..Len(walk.constvar_to_val) |-> walk.constvar_to_val[i].var]
        constvals == [i \in 1..Len(walk.constvar_to_val) |-> walk.constvar_to_val[i].val]
        in_binders == constvars \o [i \in 1..Len(tracers_in) |-> walk.tracer_to_var[tracers_in[i]]]
        out_vars == [i \in 1..Len(tracers_out) |-> walk.tracer_to_var[tracers_out[i]]]
        built == Program(in_binders, walk.instructions, out_vars)
    IN IF walk.err # "none" THEN BuildErr(walk.err)
       ELSE IF typecheck_program(built).err # "none" THEN BuildErr(typecheck_program(built).err)
       ELSE [err |-> "none", program |-> built, num_consts |-> 0, consts |-> constvals]

NoTp == [called |-> FALSE, tracers_out |-> <<>>, result |-> BuildErr("none")]

DraftIdle == pe_trace = PartialEvalTrace /\ pe_tracers_in = <<>> /\ tp_rec = NoTp

-----------------------------------------------------------------------------
(* Structured arguments: tree_flatten and tree_unflatten *)

\* a value that is an instance of no registered node type
LeafValue(v) == [type |-> "leaf", val |-> v, keys |-> <<>>, items |-> <<>>]

\* a tuple or a list of items; a dict in insertion order, keys[i] mapping to items[i],
\* the keys pairwise different
Container(type, keys, items) == [type |-> type, val |-> 0, keys |-> keys, items |-> items]

\* the node types registered by Machine.__init__ for the builtin containers
node_types == {"tuple", "list", "dict"}

\* the sentinel treedef of a leaf
leaf == [node_type |-> "leaf", node_metadata |-> None, child_treedefs |-> <<>>]

PyTreeDef(node_type, node_metadata, child_treedefs) ==
    [node_type |-> node_type, node_metadata |-> node_metadata, child_treedefs |-> child_treedefs]

\* sorted(d.items()): the positions of the items in ascending order of their keys
sorted(keys) ==
    CHOOSE p \in [1..Len(keys) -> 1..Len(keys)] :
        \A i, j \in 1..Len(keys) : i < j => keys[p[i]] < keys[p[j]]

\* a faulty flatten of dict that keeps the insertion order
node_flatten_unsorted(x) == [node_metadata |-> IF x.type = "dict" THEN x.keys ELSE None,
                             children |-> x.items]

\* NodeType.flatten of tuple, list and dict: (node_metadata, children)
node_flatten(x) ==
    IF x.type = "dict"
    THEN LET p == sorted(x.keys)
         IN [node_metadata |-> [i \in 1..Len(x.keys) |-> x.keys[p[i]]],
             children |-> [i \in 1..Len(x.keys) |-> x.items[p[i]]]]
    ELSE [node_metadata |-> None, children |-> x.items]

\* NodeType.unflatten of tuple, list and dict
node_unflatten(node_type, node_metadata, children) ==
    Container(node_type, IF node_type = "dict" THEN node_metadata ELSE <<>>, children)

\* itertools.chain.from_iterable
RECURSIVE chain(_)
chain(seqs) == IF seqs = <<>> THEN <<>> ELSE Head(seqs) \o chain(Tail(seqs))

RECURSIVE tree_flatten(_)
tree_flatten(x) ==
    IF x.type \in node_types
    THEN LET flat == node_flatten(x)
             sub == [i \in 1..Len(flat.children) |-> tree_flatten(flat.children[i])]
         IN [leaves |-> chain([i \in 1..Len(sub) |-> sub[i].leaves]),
             treedef |-> PyTreeDef(x.type, flat.node_metadata,
                                   [i \in 1..Len(sub) |-> sub[i].treedef])]
    ELSE [leaves |-> <<x>>, treedef |-> leaf]

\* _tree_unflatten over the iterator xs_: the value built and what is left of the iterator;
\* the children are built left to right, each taking its leaves from the same iterator
RECURSIVE tree_unflatten_iter(_, _)
RECURSIVE unflatten_children(_, _)
tree_unflatten_iter(treedef_, xs_) ==
    IF treedef_ = leaf
    THEN [value |-> Head(xs_), rest |-> Tail(xs_)]
    ELSE LET built == unflatten_children(treedef_.child_treedefs, xs_)
         IN [value |-> node_unflatten(treedef_.node_type, treedef_.node_metadata, built.values),
             rest |-> built.rest]

unflatten_children(child_treedefs, xs_) ==
    IF child_treedefs = <<>>
    THEN [values |-> <<>>, rest |-> xs_]
    ELSE LET first == tree_unflatten_iter(Head(child_treedefs), xs_)
             others == unflatten_children(Tail(child_treedefs), first.rest)
         IN [values |-> <<first.value>> \o others.values, rest |-> others.rest]

tree_unflatten(treedef, xs) == tree_unflatten_iter(treedef, xs).value

\* == of Python values: sequences compare item by item, dicts compare as mappings
RECURSIVE PyEq(_, _)
PyEq(x, y) ==
    /\ x.type = y.type
    /\ x.type = "leaf" => x.val = y.val
    /\ x.type \in {"tuple", "list"} =>
          /\ Len(x.items) = Len(y.items)
          /\ \A i \in 1..Len(x.items) : PyEq(x.items[i], y.items[i])
    /\ x.type = "dict" =>
          /\ Range(x.keys) = Range(y.keys)
          /\ \A i \in 1..Len(x.keys), j \in 1..Len(y.keys) :
                x.keys[i] = y.keys[j] => PyEq(x.items[i], y.items[j])

\* the comparison of the two treedefs in batched_f of vmap, in jvp and in f_lin of
\* linearize: raise TypeError when they differ, otherwise go on to the flat transformation
checked_call(entry, tree1, tree2) ==
    LET in_tree == tree_flatten(tree1).treedef
        in_tree2 == tree_flatten(tree2).treedef
    IN IF in_tree # in_tree2
       THEN [called |-> entry, err |-> "TypeError", ran |-> FALSE]
       ELSE [called |-> entry, err |-> "none", ran |-> TRUE]

\* batched_f(*args) of vmap(f, in_axes)
vmap(args, in_axes) == checked_call("vmap", args, in_axes)

\* jvp(f, primals, tangents); named jvp_call, jvp being the rule of an operator
jvp_call(primals, tangents) == checked_call("jvp", primals, tangents)

\* f_lin(*tangents_in) of linearize(f, *primals_in)
f_lin(primals_in, tangents_in) == checked_call("linearize", primals_in, tangents_in)

\* f_vjp(*cotangents_out) of vjp: the treedef of the cotangents is dropped, the flat
\* cotangents go to run_program_transposed, where list_map pairs them with the outs and
\* stops at the shorter of the two
f_vjp(outs, cotangents_out) ==
    LET cotangents_out_flat == tree_flatten(cotangents_out).leaves
    IN [called |-> "vjp", err |-> "none", ran |-> TRUE]

NoTree == [stage |-> "none", leaves |-> <<>>, treedef |-> leaf, value |-> LeafValue(0)]

NoCall == [called |-> "none", err |-> "none", ran |-> FALSE]

TreeIdle == trees = <<>> /\ tree_rec = NoTree /\ call_rec = NoCall

NoUse == [called |-> "none", returned |-> <<>>]

FrameIdle == use_rec = NoUse

NoTs == [called |-> FALSE, out_nodes |-> <<>>, result |-> [err |-> "none", nodes |-> <<>>]]

SortIdle == dag = <<>> /\ ts_rec = NoTs

NoLower == [called |-> FALSE, val |-> <<>>, result |-> <<>>]

LowerIdle == lower_rec = NoLower

LiftIdle == lifted = <<>>

JitIdle == jit_cache = <<>> /\ jit_calls = <<>>

RestIdle == SortIdle /\ LowerIdle /\ LiftIdle /\ JitIdle

OtherIdle == TreeIdle /\ BuildIdle /\ DraftIdle /\ FrameIdle /\ RestIdle

-----------------------------------------------------------------------------
(* MainTrace records and values *)

TraceTypes == {"BatchTrace", "JVPTrace", "ProgramTrace", "PartialEvalTrace"}

EntryPoints == {"vmap_flat", "jvp_flat", "make_program", "partial_run_flat"}

TraceTypeOf(entry) ==
    CASE entry = "vmap_flat" -> "BatchTrace"
      [] entry = "jvp_flat" -> "JVPTrace"
      [] entry = "make_program" -> "ProgramTrace"
      [] entry = "partial_run_flat" -> "PartialEvalTrace"

MainTrace(id, level, trace_type) == [id |-> id, level |-> level, trace_type |-> trace_type]

NoMain == MainTrace(-1, -1, "None")

RootMain == MainTrace(0, 0, "EvalTrace")

Concrete == [tracer |-> FALSE, main |-> NoMain, bare |-> TRUE, inner |-> <<>>]

Tracor(main, bare, inner) == [tracer |-> TRUE, main |-> main, bare |-> bare, inner |-> inner]

-----------------------------------------------------------------------------
(* new_main and new_dynamic: the enter and exit halves of the context managers *)

\* a faulty new_main that numbers the levels from 1
new_main_enter_level_off(stack, id, trace_type) == Append(stack, MainTrace(id, Len(stack) + 1, trace_type))

new_main_enter(stack, id, trace_type) == Append(stack, MainTrace(id, Len(stack), trace_type))

new_main_exit_no_finally(stack, raised) ==
    IF raised THEN stack ELSE SubSeq(stack, 1, Len(stack) - 1)

new_main_exit(stack, raised) == SubSeq(stack, 1, Len(stack) - 1)

\* a faulty new_dynamic that clears the pointer when an exception passes
new_dynamic_exit_cleared(prev_dynamic_trace, raised) ==
    IF raised THEN NoMain ELSE prev_dynamic_trace

\* finally: self.dynamic_trace = prev_dynamic_trace
new_dynamic_exit(prev_dynamic_trace, raised) == prev_dynamic_trace

-----------------------------------------------------------------------------
(* The dispatcher *)

RECURSIVE MaxByLevel(_, _)
MaxByLevel(mains, default) ==
    IF mains = <<>> THEN default
    ELSE LET rest == MaxByLevel(Tail(mains), default)
         IN  IF Len(mains) = 1 THEN Head(mains)
             ELSE IF rest.level > Head(mains).level THEN rest ELSE Head(mains)

get_arr_from_seq(xs) == SelectSeq(xs, LAMBDA x : x.tracer)

TracerMains(xs) == [i \in 1..Len(get_arr_from_seq(xs)) |-> get_arr_from_seq(xs)[i].main]

find_top_trace_first(stack, dyn, xs) ==
    LET arrs == TracerMains(xs)
        top_main == IF arrs = <<>> THEN stack[1] ELSE arrs[1]
    IN  IF dyn # NoMain /\ dyn.level > top_main.level THEN dyn ELSE top_main

find_top_trace(stack, dyn, xs) ==
    LET top_main == MaxByLevel(TracerMains(xs), stack[1])
    IN  IF dyn # NoMain /\ dyn.level > top_main.level THEN dyn ELSE top_main

pure(main, val) ==
    CASE main.trace_type = "EvalTrace" -> val
      [] main.trace_type = "BatchTrace" -> Tracor(main, TRUE, <<val>>)
      [] main.trace_type = "JVPTrace" -> Tracor(main, FALSE, <<val>>)
      [] main.trace_type = "ProgramTrace" -> Tracor(main, FALSE, <<val>>)
      [] main.trace_type = "PartialEvalTrace" -> Tracor(main, TRUE, <<val>>)

Returned(val) == [raised |-> FALSE, val |-> val]

Raised == [raised |-> TRUE, val |-> Concrete]

full_raise_no_level_check(main, val) ==
    IF ~val.tracer THEN Returned(pure(main, val))
    ELSE IF val.main = main THEN Returned(val)
    ELSE IF val.main.level # main.level THEN Returned(pure(main, val))
    ELSE Raised

full_raise(main, val) ==
    IF ~val.tracer THEN Returned(pure(main, val))
    ELSE IF val.main = main THEN Returned(val)
    ELSE IF val.main.level < main.level THEN Returned(pure(main, val))
    ELSE IF val.main.level > main.level THEN Raised
    ELSE Raised

\* a faulty full_lower: BatchTracor inherits the full_lower of Tracor, which returns self
RECURSIVE full_lower_batch_kept(_)
full_lower_batch_kept(val) ==
    IF val.tracer /\ val.bare /\ val.main.trace_type = "PartialEvalTrace"
    THEN full_lower_batch_kept(val.inner[1])
    ELSE val

\* Machine.full_lower(val), with the full_lower of the Tracor classes
RECURSIVE full_lower(_)
full_lower(val) ==
    IF val.tracer /\ val.bare /\ val.main.trace_type \in {"BatchTrace", "PartialEvalTrace"}
    THEN full_lower(val.inner[1])
    ELSE val

RaisedAll(results) == \E i \in 1..Len(results) : results[i].raised

RECURSIVE bind(_, _, _)

\* a run_op whose PartialEvalTrace wraps the result of the eager evaluation as a known tracer
\* of its own
run_op_wrapped(stack, dyn, main, tracers) ==
    LET inners == [i \in 1..Len(tracers) |-> tracers[i].inner[1]]
        known == \A i \in 1..Len(tracers) : tracers[i].bare
        wrapped(r) == IF r.raised THEN Raised ELSE Returned(Tracor(main, TRUE, <<r.val>>))
    IN  CASE main.trace_type = "EvalTrace" -> Returned(Concrete)
          [] main.trace_type = "BatchTrace" ->
                LET r == bind(stack, dyn, inners)
                IN  IF r.raised THEN Raised ELSE Returned(Tracor(main, known, <<r.val>>))
          [] main.trace_type = "JVPTrace" ->
                LET r == bind(stack, dyn, inners)
                IN  IF r.raised THEN Raised ELSE Returned(Tracor(main, FALSE, <<r.val>>))
          [] main.trace_type = "ProgramTrace" -> Returned(Tracor(main, FALSE, <<>>))
          [] main.trace_type = "PartialEvalTrace" ->
                IF known
                THEN wrapped(bind(stack, dyn, [i \in 1..Len(tracers) |-> full_lower(tracers[i])]))
                ELSE Returned(Tracor(main, FALSE, <<>>))

\* Trace.run_op(op, tracers, params) of the five interpreters
run_op(stack, dyn, main, tracers) ==
    LET inners == [i \in 1..Len(tracers) |-> tracers[i].inner[1]]
        known == \A i \in 1..Len(tracers) : tracers[i].bare
    IN  CASE main.trace_type = "EvalTrace" -> Returned(Concrete)
          [] main.trace_type = "BatchTrace" ->
                LET r == bind(stack, dyn, inners)
                IN  IF r.raised THEN Raised ELSE Returned(Tracor(main, known, <<r.val>>))
          [] main.trace_type = "JVPTrace" ->
                LET r == bind(stack, dyn, inners)
                IN  IF r.raised THEN Raised ELSE Returned(Tracor(main, FALSE, <<r.val>>))
          [] main.trace_type = "ProgramTrace" -> Returned(Tracor(main, FALSE, <<>>))
          [] main.trace_type = "PartialEvalTrace" ->
                IF known
                THEN bind(stack, dyn, [i \in 1..Len(tracers) |-> full_lower(tracers[i])])
                ELSE Returned(Tracor(main, FALSE, <<>>))

bind(stack, dyn, xs) ==
    LET top_trace == find_top_trace(stack, dyn, xs)
        tracers == [i \in 1..Len(xs) |-> full_raise(top_trace, xs[i])]
    IN  IF RaisedAll(tracers) THEN Raised
        ELSE LET outs == run_op(stack, dyn, top_trace, [i \in 1..Len(xs) |-> tracers[i].val])
             IN  IF outs.raised THEN Raised ELSE Returned(full_lower(outs.val))

-----------------------------------------------------------------------------
(* The transformation entry points and the user code they run *)

Frame(entry, main, before, prev_dynamic_trace) ==
    [entry |-> entry, main |-> main, before |-> before, prev_dynamic_trace |-> prev_dynamic_trace]

NoExit == [entry |-> "none", before |-> <<>>, after |-> <<>>, raised |-> FALSE, pushed |-> 0,
           dynamic_before |-> NoMain, dynamic_after |-> NoMain]

NoBind == [called |-> FALSE, xs |-> <<>>, top |-> NoMain, result |-> Raised]

NoRaise == [called |-> FALSE, main |-> NoMain, val |-> Concrete, result |-> Raised]

TraceInit ==
    /\ trace_stack = <<RootMain>>
    /\ dynamic_trace = NoMain
    /\ frames = <<>>
    /\ exc = FALSE
    /\ exit_rec = NoExit
    /\ bind_rec = NoBind
    /\ raise_rec = NoRaise
    /\ typ_rec = NoTyp
    /\ adj_rec = NoAdj
    /\ program = NoProgram
    /\ tc_rec = NoTc
    /\ pe_rec = NoPe
    /\ ct_rec = NoCt
    /\ OtherIdle

\* with self.new_main(...) as main [, with self.new_dynamic(main)]: the state after
\* the with-statements of an entry point are entered
EnterFrame(entry, stack, dyn, fs) ==
    LET pushed == new_main_enter(stack, Len(stack), TraceTypeOf(entry))
        main == pushed[Len(pushed)]
    IN  [trace_stack |-> pushed,
         dynamic_trace |-> IF entry = "make_program" THEN main ELSE dyn,
         frames |-> Append(fs, Frame(entry, main, stack, dyn))]

\* vmap_flat, jvp_flat, make_program, partial_run_flat are called: the with-statements
\* are entered and the wrapped function starts to run
Enter(entry) ==
    /\ ~exc
    /\ Len(frames) < MaxDepth
    /\ LET s == EnterFrame(entry, trace_stack, dynamic_trace, frames)
       IN  /\ trace_stack' = s.trace_stack
           /\ dynamic_trace' = s.dynamic_trace
           /\ frames' = s.frames
    /\ exit_rec' = NoExit
    /\ UNCHANGED <<exc, bind_rec, raise_rec, opVars, irVars, otherVars>>

\* an exception is raised inside the with-block of the innermost entry point: by the
\* wrapped function, by full_raise of its outputs, by builder.build
Throw ==
    /\ ~exc
    /\ frames # <<>>
    /\ exc' = TRUE
    /\ exit_rec' = NoExit
    /\ UNCHANGED <<trace_stack, dynamic_trace, frames, bind_rec, raise_rec, opVars, irVars, otherVars>>

\* the exit of the with-statements of an entry point, with or without an exception
LeaveFrame(raised) ==
    LET frame == frames[Len(frames)]
    IN  /\ trace_stack' = new_main_exit(trace_stack, raised)
        /\ dynamic_trace' = IF frame.entry = "make_program"
                            THEN new_dynamic_exit(frame.prev_dynamic_trace, raised)
                            ELSE dynamic_trace
        /\ frames' = SubSeq(frames, 1, Len(frames) - 1)
        /\ exit_rec' = [entry |-> frame.entry, before |-> frame.before, after |-> trace_stack',
                        raised |-> raised, pushed |-> Len(trace_stack) - Len(frame.before),
                        dynamic_before |-> frame.prev_dynamic_trace,
                        dynamic_after |-> dynamic_trace']

\* the wrapped function has returned and the with-block ends
Return ==
    /\ ~exc
    /\ frames # <<>>
    /\ LeaveFrame(FALSE)
    /\ UNCHANGED <<exc, bind_rec, raise_rec, opVars, irVars, otherVars>>

\* an exception passes through the with-statements of the innermost entry point
Unwind ==
    /\ exc
    /\ frames # <<>>
    /\ LeaveFrame(TRUE)
    /\ exc' \in (IF Len(frames) > 1 THEN {TRUE, FALSE} ELSE {FALSE})
    /\ UNCHANGED <<bind_rec, raise_rec, opVars, irVars, otherVars>>

TraceNext ==
    \/ \E entry \in EntryPoints : Enter(entry)
    \/ Throw
    \/ Return
    \/ Unwind

Spec == TraceInit /\ [][TraceNext]_vars

-----------------------------------------------------------------------------
(* The dispatcher applied in the states the trace stack can be in *)

\* the state in which the entry points `entries` are open, outermost first
RECURSIVE Opened(_)
Opened(entries) ==
    IF entries = <<>>
    THEN [trace_stack |-> <<RootMain>>, dynamic_trace |-> NoMain, frames |-> <<>>]
    ELSE LET s == Opened(SubSeq(entries, 1, Len(entries) - 1))
         IN  EnterFrame(entries[Len(entries)], s.trace_stack, s.dynamic_trace, s.frames)

EntrySeqs == UNION {[1..n -> EntryPoints] : n \in 0..MaxOpen}

\* MainTrace objects popped earlier, of which the user code still holds a tracer
StaleMains ==
    {MainTrace(100 + k, level, tt) : k \in 1..MaxStale, level \in 1..MaxOpen, tt \in TraceTypes}

\* the tracers of `main` the user code can hold: BatchTracor(trace, x, ax),
\* JVPTracor(trace, x, t), ProgramTracor(trace, aval), PartialEvalTracor(trace, pval, draft)
TracersOf(main, inners) ==
    CASE main.trace_type = "BatchTrace" -> {Tracor(main, FALSE, <<v>>) : v \in inners}
      [] main.trace_type = "JVPTrace" -> {Tracor(main, FALSE, <<v>>) : v \in inners}
      [] main.trace_type = "ProgramTrace" -> {Tracor(main, FALSE, <<>>)}
      [] main.trace_type = "PartialEvalTrace" ->
            {Tracor(main, TRUE, <<v>>) : v \in inners} \cup {Tracor(main, FALSE, <<>>)}
      [] OTHER -> {}

RECURSIVE LiveValues(_, _)
LiveValues(stack, n) ==
    IF n <= 1 THEN {Concrete}
    ELSE LET below == LiveValues(stack, n - 1)
         IN  below \cup TracersOf(stack[n], below)

Values(stack) == LiveValues(stack, Len(stack)) \cup UNION {TracersOf(m, {Concrete}) : m \in StaleMains}

DispatchInit ==
    /\ \E entries \in EntrySeqs :
          LET s == Opened(entries)
          IN  /\ trace_stack = s.trace_stack
              /\ dynamic_trace = s.dynamic_trace
              /\ frames = s.frames
    /\ exc = FALSE
    /\ exit_rec = NoExit
    /\ bind_rec = NoBind
    /\ raise_rec = NoRaise
    /\ typ_rec = NoTyp
    /\ adj_rec = NoAdj
    /\ program = NoProgram
    /\ tc_rec = NoTc
    /\ pe_rec = NoPe
    /\ ct_rec = NoCt
    /\ OtherIdle

\* the user code applies an operator to values it holds
Bind ==
    /\ ~bind_rec.called /\ ~raise_rec.called
    /\ \E xs \in {<<x>> : x \in Values(trace_stack)}
                 \cup {<<x, y>> : x \in Values(trace_stack), y \in Values(trace_stack)} :
          bind_rec' = [called |-> TRUE, xs |-> xs,
                       top |-> find_top_trace(trace_stack, dynamic_trace, xs),
                       result |-> bind(trace_stack, dynamic_trace, xs)]
    /\ raise_rec' = NoRaise
    /\ UNCHANGED <<trace_stack, dynamic_trace, frames, exc, exit_rec, opVars, irVars, otherVars>>

\* tracers_out = [self.full_raise(trace, out) for out in outs] in the entry points
FullRaise ==
    /\ ~bind_rec.called /\ ~raise_rec.called
    /\ frames # <<>>
    /\ \E out \in Values(trace_stack) :
          LET main == frames[Len(frames)].main
          IN  raise_rec' = [called |-> TRUE, main |-> main, val |-> out,
                            result |-> full_raise(main, out)]
    /\ bind_rec' = NoBind
    /\ UNCHANGED <<trace_stack, dynamic_trace, frames, exc, exit_rec, opVars, irVars, otherVars>>

DispatchNext == Bind \/ FullRaise

SpecDispatch == DispatchInit /\ [][DispatchNext]_vars

-----------------------------------------------------------------------------
(* The typecheck rules applied to pairs of AbstractValues *)

\* nothing is open and nothing has been called; the Program is chosen by the specification
IdleInit ==
    /\ trace_stack = <<RootMain>>
    /\ dynamic_trace = NoMain
    /\ frames = <<>>
    /\ exc = FALSE
    /\ exit_rec = NoExit
    /\ bind_rec = NoBind
    /\ raise_rec = NoRaise
    /\ typ_rec = NoTyp
    /\ adj_rec = NoAdj
    /\ tc_rec = NoTc
    /\ pe_rec = NoPe
    /\ ct_rec = NoCt

\* no Program is involved when a rule of an operator is applied
RuleInit == IdleInit /\ program = NoProgram /\ OtherIdle

\* op.typecheck(x, y) of an Operator.binary of core.py
BinaryTypecheck ==
    /\ ~typ_rec.called
    /\ \E x \in AVals, y \in AVals, x_is_tensor \in BOOLEAN :
          typ_rec' = [called |-> TRUE, rule |-> "typecheck", x |-> x, y |-> y,
                      x_is_tensor |-> x_is_tensor, result |-> binary_typecheck(x, y, x_is_tensor)]
    /\ UNCHANGED <<traceVars, otherVars, adj_rec, irVars>>

\* BinaryOp.shape_eval(x, y) of myad/ops.py and slope/ops.py
ShapeEval ==
    /\ ~typ_rec.called
    /\ \E x \in AVals, y \in AVals :
          typ_rec' = [called |-> TRUE, rule |-> "shape_eval", x |-> x, y |-> y,
                      x_is_tensor |-> FALSE, result |-> shape_eval(x, y)]
    /\ UNCHANGED <<traceVars, otherVars, adj_rec, irVars>>

TypecheckNext == BinaryTypecheck \/ ShapeEval

SpecTypecheck == RuleInit /\ [][TypecheckNext]_vars

-----------------------------------------------------------------------------
(* The jvp and T rules applied to bounded integers *)

\* which inputs of the operator are the undefined (linear) ones
UndefMasks(op) ==
    CASE op = "Neg" -> {<<TRUE>>}
      [] op \in {"Add", "Sub"} -> {<<TRUE, TRUE>>, <<TRUE, FALSE>>, <<FALSE, TRUE>>}
      [] op = "Mul" -> {<<TRUE, FALSE>>, <<FALSE, TRUE>>}
      [] op = "Div" -> {<<TRUE, FALSE>>}

\* the tangent of an input: u where it is undefined, zero where it is a known value
TangentsOf(undef, u) == [i \in 1..Len(undef) |-> IF undef[i] THEN Q(u[i]) ELSE Q(0)]

Adjoint ==
    /\ ~adj_rec.called
    /\ \E rev \in {"myad", "slope"}, op \in {"Neg", "Add", "Sub", "Mul", "Div"} :
          \E x, y, v, ux, uy \in (-MaxAbs)..MaxAbs, undef \in UndefMasks(op) :
             LET u == IF op = "Neg" THEN <<ux>> ELSE <<ux, uy>>
                 dots == TangentsOf(undef, u) \o <<Q(0)>>
             IN  /\ op = "Div" => y # 0
                 /\ op = "Neg" => y = 0 /\ uy = 0
                 /\ adj_rec' = [called |-> TRUE, rev |-> rev, op |-> op, undef |-> undef, v |-> Q(v),
                                u |-> TangentsOf(undef, u),
                                tangent_out |-> jvp(rev, op, Q(x), Q(y), dots[1], dots[2]),
                                cts |-> T_rule(rev, op, Q(v), Q(x), Q(y), undef[1], (undef \o <<FALSE>>)[2])]
    /\ UNCHANGED <<traceVars, otherVars, typ_rec, irVars>>

SpecAdjoint == RuleInit /\ [][Adjoint]_vars

-----------------------------------------------------------------------------
(* The Programs handed to typecheck_program *)

Scalar == Typecheckor(<<>>, "f32")

Vector == Typecheckor(<<2>>, "f32")

\* the type the broadcasting rule gives a binary instruction
BroadcastType(x, y) == IF Len(x.shape) < Len(y.shape) THEN y ELSE x

\* { lambda a . let in ( a a ) }, the Program of a jit_op with two outputs
PairProgram(aval) == Program(<<Var(0, aval)>>, <<>>, <<Var(0, aval), Var(0, aval)>>)

\* the instructions that can follow the bindings in scope; they bind fresh Vars. Their inputs
\* are any atoms in scope (wide), or the last Var bound, after the first for a binary operator
NextInstructions(scope, ops, wide) ==
    LET first == scope[1]
        last == scope[Len(scope)]
        atoms == Range(scope) \cup {Lit(1)}
        singles == IF wide THEN atoms ELSE {last}
        pairs == IF wide THEN atoms \X atoms ELSE {<<first, last>>}
        fresh(k, aval) == Var(Len(scope) + k, aval)
    IN  {Instruction(op, <<x>>, <<>>, <<fresh(1, x.aval)>>) : op \in ops \cap UnaryOps, x \in singles}
        \cup {Instruction(op, xy, <<>>, <<fresh(1, BroadcastType(xy[1].aval, xy[2].aval))>>) :
                 op \in ops \cap BinaryOps, xy \in pairs}
        \cup {Instruction("jit_op", <<x>>, <<PairProgram(x.aval)>>, <<fresh(1, x.aval), fresh(2, x.aval)>>) :
                 x \in IF "jit_op" \in ops THEN {last} ELSE {}}

\* the instruction lists of at most k instructions, with the Vars bound after them
RECURSIVE Bodies(_, _, _, _)
Bodies(scope, ops, wide, k) ==
    {[instructions |-> <<>>, scope |-> scope]}
    \cup IF k = 0 THEN {}
         ELSE UNION {{[instructions |-> <<i>> \o b.instructions, scope |-> b.scope] :
                         b \in Bodies(scope \o i.out_binders, ops, wide, k - 1)} :
                     i \in NextInstructions(scope, ops, wide)}

\* the output lists: up to max_outs of the first Var, the last Var and a literal
OutsOf(scope, max_outs) ==
    LET atoms == {scope[1], scope[Len(scope)], Lit(1)}
    IN  UNION {[1..n -> atoms] : n \in 1..max_outs}

\* the well-formed Programs: every Var bound once, used in scope, declared with its type
WellFormedPrograms(avals, ops, wide, max_outs) ==
    UNION {UNION {{Program(in_binders, b.instructions, outs) : outs \in OutsOf(b.scope, max_outs)} :
                     b \in Bodies(in_binders, ops, wide, MaxInstr)} :
              in_binders \in UNION {{[i \in 1..n |-> Var(i, types[i])] : types \in [1..n -> avals]} : n \in 1..MaxIn}}

\* every Var of a Program, in binding order
RECURSIVE BoundVars(_)
BoundVars(instructions) ==
    IF instructions = <<>> THEN <<>> ELSE Head(instructions).out_binders \o BoundVars(Tail(instructions))

\* the Programs that differ from a well-formed one in at most one place, where another Var
\* stands: one of the Program's own, or a Var of either type that the Program never binds
Substitutions(prog) ==
    LET bound == prog.in_binders \o BoundVars(prog.instructions)
        vs == Range(bound) \cup {Var(Len(bound) + 1, Scalar), Var(Len(bound) + 2, Vector)}
        n == Len(prog.instructions)
    IN  {[prog EXCEPT !.in_binders[i] = v] : i \in 1..Len(prog.in_binders), v \in vs}
        \cup {[prog EXCEPT !.outs[i] = v] : i \in 1..Len(prog.outs), v \in vs}
        \cup UNION {{[prog EXCEPT !.instructions[k].inputs[i] = v] :
                        i \in 1..Len(prog.instructions[k].inputs), v \in vs} : k \in 1..n}
        \cup UNION {{[prog EXCEPT !.instructions[k].out_binders[i] = v] :
                        i \in 1..Len(prog.instructions[k].out_binders), v \in vs} : k \in 1..n}

\* typecheck_program is handed any Program that differs from a well-formed one in one atom
ProgramInit ==
    /\ IdleInit
    /\ OtherIdle
    /\ \E prog \in WellFormedPrograms({Scalar, Vector}, {"neg", "add", "jit_op"}, FALSE, MaxOuts) :
          program \in Substitutions(prog)

TypecheckProgram ==
    /\ ~tc_rec.called
    /\ tc_rec' = [called |-> TRUE, result |-> typecheck_program(program)]
    /\ UNCHANGED <<traceVars, otherVars, opVars, program, pe_rec, ct_rec>>

SpecProgram == ProgramInit /\ [][TypecheckProgram]_vars

-----------------------------------------------------------------------------
(* partial_run_program applied to well-formed Programs *)

PartialInit ==
    /\ IdleInit
    /\ OtherIdle
    /\ program \in WellFormedPrograms({Scalar}, {"neg", "sub"}, TRUE, MaxOuts)

PartialRunProgram ==
    /\ ~pe_rec.called
    /\ \E in_unknowns \in [1..Len(program.in_binders) -> BOOLEAN],
          args \in [1..Len(program.in_binders) -> 1..MaxArg],
          instantiate \in {NoInstantiate} \cup
                          {[given |-> TRUE, flags |-> f] : f \in [1..Len(program.outs) -> BOOLEAN]} :
          \E residuals \in Listings(residuals_of(program, in_unknowns, instantiate)) :
             pe_rec' = [called |-> TRUE, in_unknowns |-> in_unknowns, instantiate |-> instantiate,
                        args |-> args,
                        result |-> partial_run_program(program, in_unknowns, instantiate, residuals)]
    /\ UNCHANGED <<traceVars, otherVars, opVars, program, tc_rec, ct_rec>>

SpecPartial == PartialInit /\ [][PartialRunProgram]_vars

-----------------------------------------------------------------------------
(* partial_run_program applied to well-formed Programs, jit_op instructions among them *)

\* { lambda x y . let z = sub x y in ( z ) }
SubProgram ==
    Program(<<Var(-1, Scalar), Var(-2, Scalar)>>,
            <<Instruction("sub", <<Var(-1, Scalar), Var(-2, Scalar)>>, <<>>, <<Var(-3, Scalar)>>)>>,
            <<Var(-3, Scalar)>>)

\* { lambda x y . let z = neg x ; w = sub z y in ( w z ) }
NegSubProgram ==
    Program(<<Var(-1, Scalar), Var(-2, Scalar)>>,
            <<Instruction("neg", <<Var(-1, Scalar)>>, <<>>, <<Var(-3, Scalar)>>),
              Instruction("sub", <<Var(-3, Scalar), Var(-2, Scalar)>>, <<>>, <<Var(-4, Scalar)>>)>>,
            <<Var(-4, Scalar), Var(-3, Scalar)>>)

\* the jit_op instructions that can follow the bindings in scope: one of the two Programs
\* above applied to the first and the last Var bound, in either order or to one of them twice
JitInstructions(scope) ==
    LET vs == {scope[1], scope[Len(scope)]}
    IN  {Instruction("jit_op", <<x, y>>, <<jit_program>>,
                     [k \in 1..Len(jit_program.outs) |-> Var(Len(scope) + k, Scalar)]) :
            x \in vs, y \in vs, jit_program \in {SubProgram, NegSubProgram}}

\* the instruction lists of at most k instructions, jit_op instructions among them
RECURSIVE JitBodies(_, _)
JitBodies(scope, k) ==
    {[instructions |-> <<>>, scope |-> scope]}
    \cup IF k = 0 THEN {}
         ELSE UNION {{[instructions |-> <<i>> \o b.instructions, scope |-> b.scope] :
                         b \in JitBodies(scope \o i.out_binders, k - 1)} :
                     i \in NextInstructions(scope, {"neg", "sub"}, FALSE) \cup JitInstructions(scope)}

\* the well-formed Programs of neg, sub and jit_op instructions
JitPrograms ==
    UNION {UNION {{Program(in_binders, b.instructions, outs) : outs \in OutsOf(b.scope, MaxOuts)} :
                     b \in JitBodies(in_binders, MaxInstr)} :
              in_binders \in {[i \in 1..n |-> Var(i, Scalar)] : n \in 1..MaxIn}}

PartialJitInit ==
    /\ IdleInit
    /\ OtherIdle
    /\ program \in WellFormedPrograms({Scalar}, {"neg", "sub"}, TRUE, MaxOuts) \cup JitPrograms

\* partial_run_program(program, in_unknowns, instantiate); the halves are not run afterwards
PartialRunJitProgram ==
    /\ ~pe_rec.called
    /\ \E in_unknowns \in [1..Len(program.in_binders) -> BOOLEAN],
          instantiate \in {NoInstantiate} \cup
                          {[given |-> TRUE, flags |-> f] : f \in [1..Len(program.outs) -> BOOLEAN]} :
          \E residuals \in Listings(residuals_of(program, in_unknowns, instantiate)) :
             pe_rec' = [called |-> TRUE, in_unknowns |-> in_unknowns, instantiate |-> instantiate,
                        args |-> <<>>,
                        result |-> partial_run_program(program, in_unknowns, instantiate, residuals)]
    /\ UNCHANGED <<traceVars, otherVars, opVars, program, tc_rec, ct_rec>>

SpecPartialJit == PartialJitInit /\ [][PartialRunJitProgram]_vars

-----------------------------------------------------------------------------
(* run_program_transposed applied to well-formed Programs *)

TransposeInit ==
    /\ IdleInit
    /\ OtherIdle
    /\ program \in WellFormedPrograms({Scalar}, {"neg", "add", "sub", "mul"}, FALSE, MaxOuts)

RunProgramTransposed ==
    /\ ~ct_rec.called
    /\ \E args \in [1..Len(program.in_binders) -> {PrimalProxy} \cup {Primal(Q(c)) : c \in 1..MaxArg}],
          cotangents \in [1..Len(program.outs) -> {Q(c) : c \in 1..MaxArg}] :
          ct_rec' = [called |-> TRUE, args |-> args, cotangents |-> cotangents,
                     result |-> run_program_transposed(program, args, cotangents)]
    /\ UNCHANGED <<traceVars, otherVars, opVars, program, tc_rec, pe_rec>>

SpecTranspose == TransposeInit /\ [][RunProgramTransposed]_vars

\* the well-formed Programs of neg and add whose instructions read any atoms in scope and
\* whose outputs are any Vars in scope: a Var can be used by several instructions and be a
\* Program output as well
SharingPrograms ==
    UNION {UNION {{Program(in_binders, b.instructions, outs) :
                      outs \in UNION {[1..n -> Range(b.scope)] : n \in 1..MaxOuts}} :
                     b \in Bodies(in_binders, {"neg", "add"}, TRUE, MaxInstr)} :
              in_binders \in {[i \in 1..n |-> Var(i, Scalar)] : n \in 1..MaxIn}}

TransposeSharingInit ==
    /\ IdleInit
    /\ OtherIdle
    /\ program \in SharingPrograms

SpecTransposeSharing == TransposeSharingInit /\ [][RunProgramTransposed]_vars

-----------------------------------------------------------------------------
(* tree_flatten and tree_unflatten applied to nested tuples, lists and dicts *)

\* the sequences over S of length at most n
SeqsUpTo(S, n) == UNION {[1..k -> S] : k \in 0..n}

\* the key lists a dict can have: pairwise different keys, in any insertion order
KeyLists == {ks \in SeqsUpTo(1..MaxKey, MaxChildren) :
                \A i, j \in 1..Len(ks) : i # j => ks[i] # ks[j]}

\* the values of nesting depth at most k over the leaves 1..MaxLeaf
RECURSIVE Trees(_)
Trees(k) ==
    IF k = 0
    THEN {LeafValue(v) : v \in 1..MaxLeaf}
    ELSE LET below == Trees(k - 1)
         IN below
            \cup {Container(t, <<>>, xs) : t \in {"tuple", "list"}, xs \in SeqsUpTo(below, MaxChildren)}
            \cup UNION {{Container("dict", ks, xs) : xs \in [1..Len(ks) -> below]} : ks \in KeyLists}

TreeInit ==
    /\ IdleInit
    /\ program = NoProgram
    /\ \E x \in Trees(MaxNest) : trees = <<x>>
    /\ tree_rec = NoTree
    /\ call_rec = NoCall
    /\ BuildIdle
    /\ DraftIdle
    /\ FrameIdle
    /\ RestIdle

\* leaves, treedef = tree_flatten(x)
TreeFlatten ==
    /\ tree_rec.stage = "none"
    /\ LET flat == tree_flatten(trees[1])
       IN tree_rec' = [stage |-> "flattened", leaves |-> flat.leaves, treedef |-> flat.treedef,
                       value |-> LeafValue(0)]
    /\ UNCHANGED <<traceVars, opVars, irVars, frameVars, restVars, buildVars, draftVars, trees, call_rec>>

\* tree_unflatten(treedef, leaves)
TreeUnflatten ==
    /\ tree_rec.stage = "flattened"
    /\ tree_rec' = [tree_rec EXCEPT !.stage = "unflattened",
                                    !.value = tree_unflatten(tree_rec.treedef, tree_rec.leaves)]
    /\ UNCHANGED <<traceVars, opVars, irVars, frameVars, restVars, buildVars, draftVars, trees, call_rec>>

TreeNext == TreeFlatten \/ TreeUnflatten

SpecTree == TreeInit /\ [][TreeNext]_vars

-----------------------------------------------------------------------------
(* The transformations called with two related structured arguments *)

StructuredInit ==
    /\ IdleInit
    /\ program = NoProgram
    /\ \E x \in Trees(1), y \in Trees(1) : trees = <<x, y>>
    /\ tree_rec = NoTree
    /\ call_rec = NoCall
    /\ BuildIdle
    /\ DraftIdle
    /\ FrameIdle
    /\ RestIdle

\* vmap(f, in_axes)(*args), jvp(f, primals, tangents), f_lin(*tangents_in), f_vjp(*cotangents_out)
Transform ==
    /\ call_rec.called = "none"
    /\ \E entry \in {"vmap", "jvp", "linearize", "vjp"} :
          call_rec' = CASE entry = "vmap" -> vmap(trees[1], trees[2])
                        [] entry = "jvp" -> jvp_call(trees[1], trees[2])
                        [] entry = "linearize" -> f_lin(trees[1], trees[2])
                        [] entry = "vjp" -> f_vjp(trees[1], trees[2])
    /\ UNCHANGED <<traceVars, opVars, irVars, frameVars, restVars, buildVars, draftVars, trees, tree_rec>>

SpecStructured == StructuredInit /\ [][Transform]_vars

-----------------------------------------------------------------------------
(* make_program: a function traced under a ProgramTrace, then ProgramBuilder.build *)

\* the objects the traced function can hand to pure: two Python floats of equal value that
\* are different objects, and a Tensor of shape ()
Consts == {[id |-> 1, python |-> TRUE, val |-> 1, shape |-> <<>>, dtype |-> "f32"],
           [id |-> 2, python |-> TRUE, val |-> 1, shape |-> <<>>, dtype |-> "f32"],
           [id |-> 3, python |-> FALSE, val |-> 2, shape |-> <<>>, dtype |-> "f32"]}

BuildInit ==
    /\ IdleInit
    /\ program = NoProgram
    /\ TreeIdle
    /\ BuildIdle
    /\ DraftIdle
    /\ FrameIdle
    /\ RestIdle

\* tracers_in = [trace.new_arg(aval) for aval in avals_in], before the function runs
NewArg ==
    /\ ~build_rec.called
    /\ Len(builder.tracers) = Len(builder_tracers_in)
    /\ Len(builder_tracers_in) < MaxIn
    /\ Len(builder.tracers) < MaxTracers
    /\ builder' = new_arg(builder, Scalar)
    /\ builder_tracers_in' = Append(builder_tracers_in, Len(builder.tracers) + 1)
    /\ UNCHANGED <<traceVars, opVars, irVars, frameVars, restVars, treeVars, draftVars, build_rec>>

\* the function hands a value that is no tracer to an operator or returns it: full_raise
\* calls ProgramTrace.pure
Pure ==
    /\ ~build_rec.called
    /\ Len(builder.constvals) < MaxConsts
    /\ Len(builder.tracers) < MaxTracers
    /\ \E val \in Consts : builder' = get_or_make_const_tracer(builder, val)
    /\ UNCHANGED <<traceVars, opVars, irVars, frameVars, restVars, treeVars, draftVars, builder_tracers_in, build_rec>>

\* the function applies an operator to tracers: bind calls ProgramTrace.run_op
RunOp ==
    /\ ~build_rec.called
    /\ Len(builder.instructions) < MaxInstr
    /\ Len(builder.tracers) < MaxTracers
    /\ \E op \in {"neg", "add"} :
       \E tracers \in [1..(IF op \in UnaryOps THEN 1 ELSE 2) -> 1..Len(builder.tracers)] :
          builder' = ProgramTrace_run_op(builder, op, tracers)
    /\ UNCHANGED <<traceVars, opVars, irVars, frameVars, restVars, treeVars, draftVars, builder_tracers_in, build_rec>>

\* program, consts = builder.build(tracers_in, tracers_out, static_args, name); then
\* _inline_literals applied to the Program and constants it returned
Build ==
    /\ ~build_rec.called
    /\ \E n \in 1..MaxOuts : \E out_tracers \in [1..n -> 1..Len(builder.tracers)] :
          LET result == build(builder, builder_tracers_in, out_tracers)
          IN build_rec' = [called |-> TRUE, out_tracers |-> out_tracers, result |-> result,
                           again |-> IF result.err = "none"
                                     THEN inline_literals(result.program, result.consts)
                                     ELSE BuildErr("none")]
    /\ UNCHANGED <<traceVars, opVars, irVars, frameVars, restVars, treeVars, draftVars, builder, builder_tracers_in>>

BuildNext == NewArg \/ Pure \/ RunOp \/ Build

SpecBuild == BuildInit /\ [][BuildNext]_vars

-----------------------------------------------------------------------------
(* ProgramTrace.pure called again and again while a function is traced *)

\* the objects handed to pure: a Python float, a Tensor, and a second Tensor that has the
\* value of the first and is another object
ConstObjects ==
    {val \in Consts : val.id \in {1, 3}}
       \cup {[id |-> 4, python |-> FALSE, val |-> 2, shape |-> <<>>, dtype |-> "f32"]}

\* full_raise calls ProgramTrace.pure(val); lifted keeps the object and the tracer returned
Lift ==
    /\ ~build_rec.called
    /\ Len(lifted) < MaxLifts
    /\ \E val \in ConstObjects :
          /\ \/ val.id \in DOMAIN builder.const_tracers
             \/ Len(builder.constvals) < MaxConsts /\ Len(builder.tracers) < MaxTracers
          /\ builder' = get_or_make_const_tracer(builder, val)
          /\ lifted' = Append(lifted, [val |-> val, tracer |-> builder'.const_tracers[val.id]])
    /\ UNCHANGED <<traceVars, opVars, irVars, frameVars, sortVars, lowerVars, jitVars, treeVars,
                   draftVars, builder_tracers_in, build_rec>>

ConstsNext == NewArg \/ Lift \/ RunOp \/ Build

SpecConsts == BuildInit /\ [][ConstsNext]_vars

-----------------------------------------------------------------------------
(* partial_run_flat: a function traced under a PartialEvalTrace, then tracers_to_program *)

DraftInit ==
    /\ IdleInit
    /\ program = NoProgram
    /\ TreeIdle
    /\ BuildIdle
    /\ DraftIdle
    /\ FrameIdle
    /\ RestIdle

\* tracers_in = [trace.new_arg(pval) for pval in pvals_in], before the function runs
PeNewArg ==
    /\ ~tp_rec.called
    /\ Len(pe_trace.tracers) = Len(pe_tracers_in)
    /\ Len(pe_tracers_in) < MaxIn
    /\ \E known \in BOOLEAN :
          pe_trace' = [pe_trace EXCEPT !.tracers = Append(@, PartialEvalTracor(known, "LambdaBindingDraft", 0))]
    /\ pe_tracers_in' = Append(pe_tracers_in, Len(pe_trace.tracers) + 1)
    /\ UNCHANGED <<traceVars, opVars, irVars, frameVars, restVars, treeVars, buildVars, tp_rec>>

\* the function applies an operator to tracers that are known or were made by this trace
\* for its callers: bind calls PartialEvalTrace.run_op
PeRunOp ==
    /\ ~tp_rec.called
    /\ Len(pe_trace.drafts) < MaxInstr
    /\ Len(pe_trace.tracers) < MaxPeTracers
    /\ \E op \in {"neg", "add"} :
       \E tracers \in [1..(IF op \in UnaryOps THEN 1 ELSE 2) ->
                          {t \in 1..Len(pe_trace.tracers) : pe_trace.tracers[t].draft # "ConstDraft"}] :
          pe_trace' = PartialEvalTrace_run_op(pe_trace, op, tracers)
    /\ UNCHANGED <<traceVars, opVars, irVars, frameVars, restVars, treeVars, buildVars, pe_tracers_in, tp_rec>>

\* program, consts = tracers_to_program(unk_tracers_in, unk_tracers_out) at the end of
\* partial_run_flat
TracersToProgram ==
    /\ ~tp_rec.called
    /\ \E n \in 1..MaxOuts :
       \E tracers_out \in [1..n -> {t \in 1..Len(pe_trace.tracers) : pe_trace.tracers[t].draft # "ConstDraft"}] :
          LET unk_tracers_in == SelectSeq(pe_tracers_in, LAMBDA t : ~pe_trace.tracers[t].known)
              unk_tracers_out == SelectSeq(tracers_out, LAMBDA t : ~pe_trace.tracers[t].known)
          IN tp_rec' = [called |-> TRUE, tracers_out |-> unk_tracers_out,
                        result |-> tracers_to_program(pe_trace, unk_tracers_in, unk_tracers_out)]
    /\ UNCHANGED <<traceVars, opVars, irVars, frameVars, restVars, treeVars, buildVars, pe_trace, pe_tracers_in>>

DraftNext == PeNewArg \/ PeRunOp \/ TracersToProgram

SpecDraft == DraftInit /\ [][DraftNext]_vars

-----------------------------------------------------------------------------
(* The three producers of Programs: ProgramBuilder.build, tracers_to_program and
   partial_run_program *)

\* either a Program is at hand for partial_run_program, or a function is about to be traced
ProducerInit == PartialInit \/ BuildInit

ProducerNext ==
    \/ program # NoProgram /\ PartialRunProgram
    \/ program = NoProgram /\ DraftIdle /\ BuildNext
    \/ program = NoProgram /\ BuildIdle /\ DraftNext

SpecProducers == ProducerInit /\ [][ProducerNext]_vars

-----------------------------------------------------------------------------
(* One Program handed to the operations that consume or rewrite it, in any order *)

FrameInit ==
    /\ IdleInit
    /\ TreeIdle
    /\ BuildIdle
    /\ DraftIdle
    /\ FrameIdle
    /\ RestIdle
    /\ program \in WellFormedPrograms({Scalar}, {"neg", "add", "mul"}, FALSE, MaxOuts)

\* the record of a call: the operation and the Programs it returned
Used(name, returned) == [called |-> name, returned |-> returned]

\* typecheck_program reads the three lists of the Program and writes to its own set
UseTypecheckProgram ==
    /\ typecheck_program(program).err = "none"
    /\ use_rec' = Used("typecheck_program", <<>>)
    /\ program' = program
    /\ UNCHANGED <<traceVars, opVars, tc_rec, pe_rec, ct_rec, treeVars, buildVars, draftVars, restVars>>

\* run_program reads the three lists of the Program and writes to its own dict
UseRunProgram ==
    /\ \E args \in [1..Len(program.in_binders) -> 1..MaxArg] :
          Len(run_program(program, args)) = Len(program.outs)
    /\ use_rec' = Used("run_program", <<>>)
    /\ program' = program
    /\ UNCHANGED <<traceVars, opVars, tc_rec, pe_rec, ct_rec, treeVars, buildVars, draftVars, restVars>>

\* run_program_transposed walks program.instructions[::-1] and writes to its own dicts
UseRunProgramTransposed ==
    /\ \E args \in [1..Len(program.in_binders) -> {PrimalProxy} \cup {Primal(Q(c)) : c \in 1..MaxArg}],
          cotangents \in [1..Len(program.outs) -> {Q(c) : c \in 1..MaxArg}] :
          run_program_transposed(program, args, cotangents).err \in {"none", "AssertionError"}
    /\ use_rec' = Used("run_program_transposed", <<>>)
    /\ program' = [program EXCEPT !.instructions = slice_reversed(@).list]
    /\ UNCHANGED <<traceVars, opVars, tc_rec, pe_rec, ct_rec, treeVars, buildVars, draftVars, restVars>>

\* partial_run_program appends to the lists it makes and returns two Programs made of them
UsePartialRunProgram ==
    /\ \E in_unknowns \in [1..Len(program.in_binders) -> BOOLEAN],
          instantiate \in {NoInstantiate} \cup
                          {[given |-> TRUE, flags |-> f] : f \in [1..Len(program.outs) -> BOOLEAN]} :
          \E residuals \in Listings(residuals_of(program, in_unknowns, instantiate)) :
             LET result == partial_run_program(program, in_unknowns, instantiate, residuals)
             IN  use_rec' = Used("partial_run_program", <<result.program1, result.program2>>)
    /\ program' = program
    /\ UNCHANGED <<traceVars, opVars, tc_rec, pe_rec, ct_rec, treeVars, buildVars, draftVars, restVars>>

\* _inline_literals makes its lists by comprehension and returns a Program made of them; the
\* first binders of the Program are those of the constants
UseInlineLiterals ==
    /\ \E n \in 0..Len(program.in_binders) : \E consts \in [1..n -> Consts] :
          LET result == inline_literals(program, consts)
          IN  /\ result.err = "none"
              /\ use_rec' = Used("_inline_literals", <<result.program>>)
    /\ program' = program
    /\ UNCHANGED <<traceVars, opVars, tc_rec, pe_rec, ct_rec, treeVars, buildVars, draftVars, restVars>>

FrameNext ==
    \/ UseTypecheckProgram
    \/ UseRunProgram
    \/ UseRunProgramTransposed
    \/ UsePartialRunProgram
    \/ UseInlineLiterals

SpecFrame == FrameInit /\ [][FrameNext]_vars

-----------------------------------------------------------------------------
(* PartialEvalTrace.run_op: called by bind in the states the trace stack can be in, and
   called on the tracers of one trace, whose drafts it makes *)

RunOpNext ==
    \/ DraftIdle /\ DispatchNext
    \/ ~bind_rec.called /\ ~raise_rec.called /\ frames = <<>> /\ DraftNext

SpecRunOp == DispatchInit /\ [][RunOpNext]_vars

-----------------------------------------------------------------------------
(* full_lower applied to the tracers the interpreters make *)

\* the tracers of `main` an interpreter makes: those the user code holds and those
\* Trace.pure wraps around a value of a lower level
MadeTracers(main, inners) == TracersOf(main, inners) \cup {pure(main, v) : v \in inners}

RECURSIVE MadeValues(_, _)
MadeValues(stack, n) ==
    IF n <= 1 THEN {Concrete}
    ELSE LET below == MadeValues(stack, n - 1)
         IN  below \cup MadeTracers(stack[n], below)

\* Machine.full_lower(val) is called on a value an interpreter made
FullLower ==
    /\ ~bind_rec.called /\ ~raise_rec.called /\ ~lower_rec.called
    /\ \E val \in MadeValues(trace_stack, Len(trace_stack)) :
          lower_rec' = [called |-> TRUE, val |-> val, result |-> full_lower(val)]
    /\ UNCHANGED <<traceVars, opVars, irVars, treeVars, buildVars, draftVars, frameVars,
                   sortVars, liftVars, jitVars>>

LowerNext ==
    \/ LowerIdle /\ DispatchNext
    \/ FullLower

SpecLower == DispatchInit /\ [][LowerNext]_vars

-----------------------------------------------------------------------------
(* jit: f_jitted and the lru_cache of make_program *)

\* Typecheckor.like(aval): a new Typecheckor object; id tells the objects apart
Typecheckor_like(id, aval) == [id |-> id, shape |-> aval.shape, dtype |-> aval.dtype]

\* Typecheckor.__hash__: hash((self.shape, self.dtype)), equal for equal tuples
Typecheckor_hash(self) == <<self.shape, self.dtype>>

\* the __eq__ a class has when it defines none: the same object
Typecheckor_eq_identity(self, other) == self.id = other.id

\* Typecheckor.__eq__
Typecheckor_eq(self, other) == self.shape = other.shape /\ self.dtype = other.dtype

\* a static argument value: a Python int or bool; True == 1 and hash(True) == hash(1)
StaticValue(type, num) == [type |-> type, num |-> num]

static_hash(v) == v.num

static_eq(v, w) == v.num = w.num

\* static_argnames of the jit-wrapped function
static_argnames == {"a", "b"}

\* the key lru_cache makes of make_program(f, *avals_in, static_args=..., name=...)
make_key(f, avals_in, static_args, name) ==
    [f |-> f, avals_in |-> avals_in, static_args |-> static_args, name |-> name]

\* the hash of the key: made of the hashes of its parts
key_hash(key) ==
    <<key.f, [i \in 1..Len(key.avals_in) |-> Typecheckor_hash(key.avals_in[i])],
      [i \in 1..Len(key.static_args) |-> <<key.static_args[i].k, static_hash(key.static_args[i].v)>>],
      key.name>>

\* the comparison of two keys: part by part, two parts being equal when they are the same
\* object or __eq__ says so; static_args is the tuple of the (name, value) pairs in the order
\* of the call
key_eq(key, other) ==
    /\ key.f = other.f
    /\ Len(key.avals_in) = Len(other.avals_in)
    /\ \A i \in 1..Len(key.avals_in) :
          \/ key.avals_in[i].id = other.avals_in[i].id
          \/ Typecheckor_eq(key.avals_in[i], other.avals_in[i])
    /\ Len(key.static_args) = Len(other.static_args)
    /\ \A i \in 1..Len(key.static_args) :
          /\ key.static_args[i].k = other.static_args[i].k
          /\ static_eq(key.static_args[i].v, other.static_args[i].v)
    /\ key.name = other.name

\* the entries of the cache a key finds
cache_find(cache, key) ==
    {i \in 1..Len(cache) : key_hash(cache[i].key) = key_hash(key) /\ key_eq(cache[i].key, key)}

\* f_jitted(*args, **static_args), call number n of the jit-wrapped function f: the keyword
\* check, the avals, and make_program behind lru_cache; `raises` says whether f raises when
\* it is traced. A Program built by the trace of call n is named n.
f_jitted(cache, n, args, kwargs, raises) ==
    LET avals_in == [i \in 1..Len(args) |-> Typecheckor_like(<<n, i>>, args[i])]
        key == make_key("f", avals_in, kwargs, "f_jit")
        found == cache_find(cache, key)
        answer(err, traced, result, new_cache) ==
            [err |-> err, avals_in |-> avals_in, traced |-> traced, result |-> result,
             cache |-> new_cache]
    IN  IF \E i \in 1..Len(kwargs) : kwargs[i].k \notin static_argnames
        THEN answer("TypeError", FALSE, 0, cache)
        ELSE IF found # {}
        THEN answer("none", FALSE, cache[CHOOSE i \in found : TRUE].result, cache)
        ELSE IF raises
        THEN answer("Exception", TRUE, 0, cache)
        ELSE answer("none", TRUE, n, Append(cache, [key |-> key, result |-> n]))

\* the arguments of the calls: one Tensor of one of three avals
JitArgs == {<<Scalar>>, <<Vector>>, <<Typecheckor(<<>>, "i32")>>}

KeywordArg(k, v) == [k |-> k, v |-> v]

\* the keyword arguments of the calls, in the order they are written in the call
JitKwargs ==
    {<<>>,
     <<KeywordArg("a", StaticValue("int", 1))>>,
     <<KeywordArg("a", StaticValue("int", 2))>>,
     <<KeywordArg("a", StaticValue("bool", 1))>>,
     <<KeywordArg("a", StaticValue("int", 1)), KeywordArg("b", StaticValue("int", 1))>>,
     <<KeywordArg("b", StaticValue("int", 1)), KeywordArg("a", StaticValue("int", 1))>>,
     <<KeywordArg("c", StaticValue("int", 1))>>}

JitInit == IdleInit /\ program = NoProgram /\ OtherIdle

\* the jit-wrapped function is called
JitCall ==
    /\ Len(jit_calls) < MaxCalls
    /\ \E args \in JitArgs, kwargs \in JitKwargs, raises \in BOOLEAN :
       \E r \in {f_jitted(jit_cache, Len(jit_calls) + 1, args, kwargs, raises)} :
          /\ jit_cache' = r.cache
          /\ jit_calls' = Append(jit_calls, [args |-> args, kwargs |-> kwargs, avals_in |-> r.avals_in,
                                             err |-> r.err, traced |-> r.traced, result |-> r.result])
    /\ UNCHANGED <<traceVars, opVars, irVars, treeVars, buildVars, draftVars, frameVars,
                   sortVars, lowerVars, liftVars>>

SpecJit == JitInit /\ [][JitCall]_vars

-----------------------------------------------------------------------------
(* toposort applied to acyclic graphs *)

\* the acyclic graphs over the nodes 1..MaxNodes: the parents of a node are listed in any
\* order, a parent can be listed twice, and every parent has a smaller number than the node
Dags == {g \in [1..MaxNodes -> SeqsUpTo(1..MaxNodes, MaxParents)] :
            \A n \in 1..MaxNodes : \A k \in 1..Len(g[n]) : g[n][k] < n}

SortInit ==
    /\ IdleInit
    /\ program = NoProgram
    /\ TreeIdle
    /\ BuildIdle
    /\ DraftIdle
    /\ FrameIdle
    /\ LowerIdle
    /\ LiftIdle
    /\ JitIdle
    /\ dag \in Dags
    /\ ts_rec = NoTs

\* sorted_nodes = toposort(out_nodes, parents); out_nodes can list a node more than once
Toposort ==
    /\ ~ts_rec.called
    /\ \E out_nodes \in SeqsUpTo(1..MaxNodes, MaxOutNodes) :
          ts_rec' = [called |-> TRUE, out_nodes |-> out_nodes, result |-> toposort(out_nodes, dag)]
    /\ UNCHANGED <<traceVars, opVars, irVars, treeVars, buildVars, draftVars, frameVars, dag,
                   lowerVars, liftVars, jitVars>>

SpecToposort == SortInit /\ [][Toposort]_vars

-----------------------------------------------------------------------------
(* Claims about the trace stack and the dispatcher *)

\* C1: every entry point (vmap_flat, jvp_flat, make_program, partial_run_flat) pushes
\* exactly one MainTrace before the wrapped function runs, and when it is left, by a
\* return or by an exception, the trace stack equals the stack before the call.
C1_ScopedPushPop ==
    /\ Len(trace_stack) = Len(frames) + 1
    /\ \A i \in 1..Len(frames) :
          /\ frames[i].before = SubSeq(trace_stack, 1, i)
          /\ trace_stack[i + 1] = frames[i].main
          /\ frames[i].main.trace_type = TraceTypeOf(frames[i].entry)
    /\ exit_rec.entry # "none" =>
          /\ exit_rec.pushed = 1
          /\ exit_rec.after = exit_rec.before

C1_Witness ==
    /\ exit_rec.entry # "none"
    /\ exit_rec.raised
    /\ Len(exit_rec.before) > 1
    /\ exit_rec.after = exit_rec.before

\* C2: bind's top trace is the MainTrace of highest level among the operands that are
\* tracers, the bottom-of-stack eager MainTrace when no operand is a tracer, and the
\* dynamic MainTrace instead when one is set whose level is strictly higher.
C2_TopTrace ==
    bind_rec.called =>
        LET xs == bind_rec.xs
            mains == {xs[i].main : i \in {j \in 1..Len(xs) : xs[j].tracer}}
            candidates == IF mains = {} THEN {trace_stack[1]}
                          ELSE {m \in mains : \A n \in mains : n.level <= m.level}
        IN  \E cand \in candidates :
                bind_rec.top = IF dynamic_trace # NoMain /\ dynamic_trace.level > cand.level
                               THEN dynamic_trace ELSE cand

C2_Witness ==
    /\ bind_rec.called
    /\ Len(bind_rec.xs) = 2
    /\ bind_rec.xs[1].tracer /\ bind_rec.xs[2].tracer
    /\ bind_rec.xs[1].main.level < bind_rec.xs[2].main.level
    /\ dynamic_trace # NoMain
    /\ bind_rec.top = bind_rec.xs[2].main

\* C3: full_raise(trace, val) returns val unchanged when val is a tracer of the target
\* MainTrace, returns trace.pure(val) when val is no tracer or a tracer of a strictly
\* lower level, and raises, returning no tracer, when val's level is higher or when val
\* belongs to another MainTrace of the same level.
C3_FullRaise ==
    raise_rec.called =>
        LET main == raise_rec.main
            val == raise_rec.val
            r == raise_rec.result
        IN  /\ (val.tracer /\ val.main = main) => r = Returned(val)
            /\ (~val.tracer \/ val.main.level < main.level) => r = Returned(pure(main, val))
            /\ (val.tracer /\ val.main.level > main.level) => r = Raised
            /\ (val.tracer /\ val.main.level = main.level /\ val.main # main) => r = Raised

C3_Witness ==
    /\ raise_rec.called
    /\ raise_rec.val.tracer
    /\ raise_rec.val.main.level = raise_rec.main.level
    /\ raise_rec.val.main # raise_rec.main
    /\ raise_rec.result = Raised

-----------------------------------------------------------------------------
\* The two AbstractValues cannot be combined: after right-aligning the shapes some pair of
\* dimensions differs with neither being 1, or the dtypes differ
Incompatible(x, y) ==
    \/ x.dtype # y.dtype
    \/ \E i \in 1..Len(x.shape), j \in 1..Len(y.shape) :
          /\ Len(x.shape) - i = Len(y.shape) - j
          /\ x.shape[i] # y.shape[j]
          /\ x.shape[i] # 1
          /\ y.shape[j] # 1

\* C8: a binary operator's typecheck fails with a TypeError whenever its two input
\* AbstractValues are incompatible, and never returns an output type for such inputs.
C8_IncompatibleRejected ==
    (typ_rec.called /\ Incompatible(typ_rec.x, typ_rec.y)) => typ_rec.result.err = "TypeError"

\* the sum over the undefined inputs of cotangent times tangent; None counts as zero
RECURSIVE DotUndef(_, _, _)
DotUndef(cts, u, undef) ==
    IF cts = <<>> THEN Q(0)
    ELSE LET rest == DotUndef(Tail(cts), Tail(u), Tail(undef))
         IN  IF Head(undef) /\ Head(cts) # None THEN QAdd(QMul(Head(cts), Head(u)), rest) ELSE rest

\* C10: for Neg, Add, Sub, and Mul or Div with one operand fixed as a known value, the T rule
\* is the adjoint of the jvp rule: dot(v, tangent output of jvp on u) = dot(T(v), u).
C10_AdjointIdentity ==
    adj_rec.called =>
        QEq(QMul(adj_rec.v, adj_rec.tangent_out), DotUndef(adj_rec.cts, adj_rec.u, adj_rec.undef))

-----------------------------------------------------------------------------
(* Claims about typecheck_program *)

\* the Vars bound before instruction k of the Program, in binding order
BoundBefore(prog, k) == prog.in_binders \o BoundVars(SubSeq(prog.instructions, 1, k - 1))

\* some Var is bound more than once: among the in_binders and the instructions' out_binders
BoundTwice(prog) ==
    LET binders == BoundBefore(prog, Len(prog.instructions) + 1)
    IN  \E i \in 1..Len(binders), j \in 1..Len(binders) : i < j /\ binders[i] = binders[j]

\* C5: typecheck_program rejects with a TypeError any Program in which a Var is bound more
\* than once (twice in in_binders, in_binder and instruction output, outputs of two
\* instructions, twice in one instruction's outputs).
C5_RebindingRejected ==
    (tc_rec.called /\ BoundTwice(program)) => tc_rec.result.err = "TypeError"

\* some instruction input or Program output is a Var that is not in scope where it is read
OutOfScope(prog) ==
    \/ \E k \in 1..Len(prog.instructions) : \E i \in 1..Len(prog.instructions[k].inputs) :
          /\ prog.instructions[k].inputs[i].kind = "Var"
          /\ prog.instructions[k].inputs[i] \notin Range(BoundBefore(prog, k))
    \/ \E i \in 1..Len(prog.outs) :
          /\ prog.outs[i].kind = "Var"
          /\ prog.outs[i] \notin Range(BoundBefore(prog, Len(prog.instructions) + 1))

\* C6: typecheck_program rejects with a TypeError any Program in which an instruction input
\* or a Program output is a Var not in scope at that point, a Var bound only by a later
\* instruction included.
C6_OutOfScopeRejected ==
    (tc_rec.called /\ OutOfScope(program)) => tc_rec.result.err = "TypeError"

\* the walk of typecheck_program arrives at instruction k and finds its inputs in scope
Recomputes(prog, k) ==
    /\ typecheck_program(Program(prog.in_binders, SubSeq(prog.instructions, 1, k - 1), <<>>)).err = "none"
    /\ \A i \in 1..Len(prog.instructions[k].inputs) :
          prog.instructions[k].inputs[i].kind = "Var"
             => prog.instructions[k].inputs[i] \in Range(BoundBefore(prog, k))

AvalsOf(atoms) == [i \in 1..Len(atoms) |-> atoms[i].aval]

\* the output types the operator's typecheck gives instruction k from its input avals
Recomputed(prog, k) == op_typecheck(prog.instructions[k], AvalsOf(prog.instructions[k].inputs))

\* instruction k is recomputed to output types that are not the declared ones
Mismatch(prog, k) ==
    /\ Recomputes(prog, k)
    /\ Recomputed(prog, k).err = "none"
    /\ Recomputed(prog, k).avals # AvalsOf(prog.instructions[k].out_binders)

\* C7: for each instruction typecheck_program recomputes the output avals with the operator's
\* typecheck from the input avals and raises TypeError unless every recomputed output type
\* equals the declared one; on success it returns the signature: the types of the in_binders
\* in order and the types of the output atoms in order.
C7_RecomputedTypes ==
    tc_rec.called =>
        /\ \A k \in 1..Len(program.instructions) : Mismatch(program, k) => tc_rec.result.err = "TypeError"
        /\ tc_rec.result.err = "none" =>
              /\ \A k \in 1..Len(program.instructions) :
                    /\ Recomputed(program, k).err = "none"
                    /\ Recomputed(program, k).avals = AvalsOf(program.instructions[k].out_binders)
              /\ tc_rec.result.in_types = AvalsOf(program.in_binders)
              /\ tc_rec.result.out_types = AvalsOf(program.outs)

C7_Witness ==
    /\ tc_rec.called
    /\ Len(program.instructions) = 2
    /\ Mismatch(program, 2)
    /\ tc_rec.result.err = "TypeError"

\* every rejection of a Program with a rebinding or an out-of-scope Var is a TypeError or
\* the AttributeError of an earlier binary instruction
RejectedSomehow ==
    (tc_rec.called /\ (BoundTwice(program) \/ OutOfScope(program)))
        => tc_rec.result.err \in {"TypeError", "AttributeError"}

-----------------------------------------------------------------------------
(* Claims about partial evaluation and transposition *)

\* merge_lists(which, l1, l2): the next of l2 where the flag is True, the next of l1 elsewhere
RECURSIVE merge_lists(_, _, _)
merge_lists(which, l1, l2) ==
    IF which = <<>> THEN <<>>
    ELSE IF Head(which) THEN <<Head(l2)>> \o merge_lists(Tail(which), l1, Tail(l2))
    ELSE <<Head(l1)>> \o merge_lists(Tail(which), Tail(l1), l2)

\* program1 on the known inputs, then program2 on the residuals and the unknown inputs,
\* merged by out_unknowns
TwoStageOutputs(rec) ==
    LET args == partition_list(rec.in_unknowns, rec.args)
        outs1 == run_program(rec.result.program1, args[1])
        n1 == Len(outs1) - rec.result.num_res
        outs2 == run_program(rec.result.program2, SubSeq(outs1, n1 + 1, Len(outs1)) \o args[2])
    IN  merge_lists(rec.result.out_unknowns, SubSeq(outs1, 1, n1), outs2)

\* C4: for every Program and every mask, running program1 on the known inputs, splitting its
\* outputs into the known outputs followed by num_res residuals, running program2 on the
\* residuals followed by the unknown inputs and merging by out_unknowns gives exactly the
\* outputs of running the Program on all the inputs.
C4_PartialRunCorrect ==
    (pe_rec.called /\ pe_rec.result.err = "none")
        => TwoStageOutputs(pe_rec) = run_program(program, pe_rec.args)

C4_Witness ==
    /\ pe_rec.called
    /\ pe_rec.result.err = "none"
    /\ pe_rec.result.num_res = 2
    /\ Len(pe_rec.result.program1.instructions) = 1
    /\ Len(pe_rec.result.program2.instructions) = 1
    /\ pe_rec.result.out_unknowns = <<FALSE, TRUE>>
    /\ TwoStageOutputs(pe_rec) = run_program(program, pe_rec.args)

\* the in_binders whose argument is a PrimalProxy, in in_binder order
RECURSIVE ProxyBinders(_, _)
ProxyBinders(in_binders, args) ==
    IF in_binders = <<>> THEN <<>>
    ELSE IF Head(args).proxy THEN <<Head(in_binders)>> \o ProxyBinders(Tail(in_binders), Tail(args))
    ELSE ProxyBinders(Tail(in_binders), Tail(args))

\* C9: run_program_transposed returns one cotangent for each input whose argument is a
\* PrimalProxy and none for the other inputs, in in_binder order, so the list is as long as
\* there are PrimalProxy placeholders in args.
C9_CotangentPerProxy ==
    (ct_rec.called /\ ct_rec.result.err = "none") =>
        LET binders == ProxyBinders(program.in_binders, ct_rec.args)
        IN  /\ Len(ct_rec.result.ret) = Cardinality({i \in 1..Len(ct_rec.args) : ct_rec.args[i].proxy})
            /\ Len(ct_rec.result.ret) = Len(binders)
            /\ \A j \in 1..Len(binders) :
                  ct_rec.result.ret[j] = read_cotangent(ct_rec.result.ct_environment, binders[j])

C9_Witness ==
    /\ ct_rec.called
    /\ ct_rec.result.err = "none"
    /\ Len(program.instructions) = 2
    /\ Len(ct_rec.args) = 2
    /\ ~ct_rec.args[1].proxy
    /\ ct_rec.args[2].proxy
    /\ Len(ct_rec.result.ret) = 1
    /\ ct_rec.result.ret[1] # Q(0)
    /\ program.in_binders[1] \in DOMAIN ct_rec.result.ct_environment

-----------------------------------------------------------------------------
(* Claims about structured arguments *)

\* the leaves of x from left to right, the entries of a dict taken by ascending key
RECURSIVE LeavesInOrder(_)
LeavesInOrder(x) ==
    CASE x.type = "leaf" -> <<x>>
      [] x.type \in {"tuple", "list"} ->
            chain([i \in 1..Len(x.items) |-> LeavesInOrder(x.items[i])])
      [] x.type = "dict" ->
            LET rank(i) == Cardinality({j \in 1..Len(x.keys) : x.keys[j] <= x.keys[i]})
                at(r) == CHOOSE i \in 1..Len(x.keys) : rank(i) = r
            IN chain([r \in 1..Len(x.keys) |-> LeavesInOrder(x.items[at(r)])])

\* C11: for every value x built from tuples, lists and dicts over leaves, with
\* (leaves, treedef) = tree_flatten(x), leaves lists the leaves of x from left to right
\* (dict entries by sorted key) and tree_unflatten(treedef, leaves) equals x.
C11_FlattenUnflatten ==
    /\ tree_rec.stage # "none" => tree_rec.leaves = LeavesInOrder(trees[1])
    /\ tree_rec.stage = "unflattened" => PyEq(tree_rec.value, trees[1])

\* a dict inserted in descending key order, nested in a tuple, went through the round trip
C11_Witness ==
    /\ tree_rec.stage = "unflattened"
    /\ trees[1].type = "tuple"
    /\ \E i \in 1..Len(trees[1].items) :
          /\ trees[1].items[i].type = "dict"
          /\ trees[1].items[i].keys = <<2, 1>>
          /\ trees[1].items[i].items[1] # trees[1].items[i].items[2]

\* the two structured arguments have different tree structures
StructuresDiffer == tree_flatten(trees[1]).treedef # tree_flatten(trees[2]).treedef

\* C12: a transformation that receives two related structured arguments whose tree
\* structures differ (vmap, jvp, f_lin of linearize, f_vjp of vjp) fails with a TypeError
\* and does not run the wrapped computation.
C12_MismatchRejected ==
    call_rec.called # "none" /\ StructuresDiffer =>
        call_rec.err = "TypeError" /\ ~call_rec.ran

-----------------------------------------------------------------------------
(* Claims about ProgramBuilder *)

\* the Vars of the true parameters, in the order of the input tracers
ParamVars == [i \in 1..Len(builder_tracers_in) |-> builder.tracer_to_var[builder_tracers_in[i]]]

\* a collected constant that is no Python scalar, and so is not inlined as a literal
KeptConst(entry) == ~entry.val.python

KeptConsts == SelectSeq(builder.constvals, KeptConst)

\* C13 as stated: build returns a Program whose input binders are the Vars of all the
\* constants collected during tracing, then the Vars of the true parameters in the order
\* of the input tracers; num_consts counts the leading constant binders and the returned
\* constants are aligned with them.
C13_AllConstsLead ==
    build_rec.called /\ build_rec.result.err = "none" =>
        /\ build_rec.result.program.in_binders =
              [i \in 1..Len(builder.constvals) |-> builder.constvals[i].var] \o ParamVars
        /\ build_rec.result.num_consts = Len(builder.constvals)
        /\ build_rec.result.consts = [i \in 1..Len(builder.constvals) |-> builder.constvals[i].val]

\* C13, amended: the leading input binders are the Vars of the collected constants that
\* are not Python scalars, in the order they were collected (a Python bool, int or float
\* constant is inlined as a Lit and has no binder); the Vars of the true parameters follow
\* in the order of the input tracers; num_consts counts the leading constant binders and
\* the returned constants are aligned with them one to one.
C13_KeptConstsLead ==
    build_rec.called /\ build_rec.result.err = "none" =>
        /\ build_rec.result.program.in_binders =
              [i \in 1..Len(KeptConsts) |-> KeptConsts[i].var] \o ParamVars
        /\ build_rec.result.num_consts = Len(KeptConsts)
        /\ build_rec.result.consts = [i \in 1..Len(KeptConsts) |-> KeptConsts[i].val]

\* build returned after a Python float and then a Tensor were collected, with a parameter
C13_Witness ==
    /\ build_rec.called
    /\ build_rec.result.err = "none"
    /\ Len(builder.constvals) = 2
    /\ builder.constvals[1].val.python
    /\ ~builder.constvals[2].val.python
    /\ Len(builder_tracers_in) = 1
    /\ build_rec.result.num_consts = 1
    /\ Len(build_rec.result.program.instructions) = 1

\* C14: _inline_literals, followed by typecheck_program, applied a second time to the
\* Program and constants the first application returned yields a Program with the same
\* input-type and output-type signature and the same number of constants.
C14_InlineIdempotent ==
    build_rec.called /\ build_rec.result.err = "none" =>
        /\ build_rec.again.err = "none"
        /\ typecheck_program(build_rec.again.program) = typecheck_program(build_rec.result.program)
        /\ typecheck_program(build_rec.again.program).err = "none"
        /\ build_rec.again.num_consts = build_rec.result.num_consts
        /\ Len(build_rec.again.consts) = Len(build_rec.result.consts)

\* the first application inlined two Python floats, one of them read by an instruction and
\* one returned, and the second application went through
C14_Witness ==
    /\ build_rec.called
    /\ build_rec.result.err = "none"
    /\ build_rec.again.err = "none"
    /\ Len(builder.constvals) = 2
    /\ build_rec.result.num_consts = 0
    /\ \E k \in 1..Len(build_rec.result.program.instructions) :
          \E i \in 1..Len(build_rec.result.program.instructions[k].inputs) :
             build_rec.result.program.instructions[k].inputs[i].kind = "Lit"
    /\ \E i \in 1..Len(build_rec.result.program.outs) :
          build_rec.result.program.outs[i].kind = "Lit"

-----------------------------------------------------------------------------
(* Claims about the shape of the trace stack *)

\* C15: in every reachable state the trace stack is non-empty, its bottom record is the
\* eager (Eval) interpreter at level 0, and the record at stack index i (counted from 0)
\* has level i, so the levels increase strictly from bottom to top; this holds after any
\* nesting of new_main entries and exits, exits by exception included.
C15_StackShape ==
    /\ trace_stack # <<>>
    /\ trace_stack[1].trace_type = "EvalTrace"
    /\ trace_stack[1].level = 0
    /\ \A i \in 1..Len(trace_stack) : trace_stack[i].level = i - 1
    /\ \A i, j \in 1..Len(trace_stack) : i < j => trace_stack[i].level < trace_stack[j].level

\* two entry points were nested, the inner one was left by an exception, and a third was
\* entered on top of the outer one
C15_Witness ==
    /\ Len(trace_stack) = 3
    /\ exit_rec.raised
    /\ exit_rec.entry # "none"
    /\ ~exc

-----------------------------------------------------------------------------
(* Claims about the Programs produced *)

\* every Var an instruction reads is an input binder or an output of an earlier
\* instruction, and so is every Var among the outs
Ordered(prog) ==
    /\ \A k \in 1..Len(prog.instructions) : \A i \in 1..Len(prog.instructions[k].inputs) :
          LET x == prog.instructions[k].inputs[i]
          IN x.kind = "Var" =>
                \/ x \in Range(prog.in_binders)
                \/ \E j \in 1..(k - 1) : x \in Range(prog.instructions[j].out_binders)
    /\ \A i \in 1..Len(prog.outs) :
          prog.outs[i].kind = "Var" =>
             \/ prog.outs[i] \in Range(prog.in_binders)
             \/ \E j \in 1..Len(prog.instructions) : prog.outs[i] \in Range(prog.instructions[j].out_binders)

\* C16: in every Program produced by ProgramBuilder.build, by tracers_to_program and by
\* partial_run_program (program1 and program2), every Var read by an instruction is an
\* input binder of that Program or an output of an instruction earlier in the list, so
\* run_program never reads a Var before it was written; and the three return such
\* Programs for every trace and every well-formed Program they are given here.
C16_InstructionOrder ==
    /\ build_rec.called => build_rec.result.err = "none" /\ Ordered(build_rec.result.program)
    /\ tp_rec.called => tp_rec.result.err = "none" /\ Ordered(tp_rec.result.program)
    /\ pe_rec.called =>
          /\ pe_rec.result.err = "none"
          /\ Ordered(pe_rec.result.program1)
          /\ Ordered(pe_rec.result.program2)

\* tracers_to_program returned two instructions, the second reading the output of the first
C16_Witness ==
    /\ tp_rec.called
    /\ tp_rec.result.err = "none"
    /\ Len(tp_rec.result.program.instructions) = 2
    /\ \E i \in 1..Len(tp_rec.result.program.instructions[2].inputs) :
          tp_rec.result.program.instructions[2].inputs[i]
             \in Range(tp_rec.result.program.instructions[1].out_binders)

-----------------------------------------------------------------------------
(* C17 *)

\* the instruction has the operator, inputs, params and output binders of the other
SameInstruction(a, b) ==
    a.op = b.op /\ a.inputs = b.inputs /\ a.params = b.params /\ a.out_binders = b.out_binders

-----------------------------------------------------------------------------
(* C18 *)

\* the unknown flag partial_run_program has given every Var of the Program
UnknownFlags ==
    partial_run_instructions(program.instructions,
                             write_all(<<>>, program.in_binders, pe_rec.in_unknowns)).environment

\* some input of the instruction is a Var flagged unknown; a literal is never one
ReadsUnknown(flags, instruction) ==
    \E i \in 1..Len(instruction.inputs) :
        instruction.inputs[i].kind = "Var" /\ flags[instruction.inputs[i]]

\* C18: with the default rule, partial_run_program flags the input binders as in_unknowns
\* says and flags all outputs of an instruction unknown iff at least one of its inputs is an
\* unknown Var; an instruction whose inputs are all known is in program1 and not in program2,
\* an instruction with an unknown input is in program2 and not in program1, and each half
\* lists its instructions in the order the Program lists them.
C18_UnknownPropagation ==
    pe_rec.called =>
        LET instructions == program.instructions
            instructions1 == pe_rec.result.program1.instructions
            instructions2 == pe_rec.result.program2.instructions
            flags == UnknownFlags
            Unknown(instruction) == ReadsUnknown(flags, instruction)
            Known(instruction) == ~ReadsUnknown(flags, instruction)
        IN  /\ \A i \in 1..Len(program.in_binders) : flags[program.in_binders[i]] = pe_rec.in_unknowns[i]
            /\ \A k \in 1..Len(instructions) :
                  /\ (\A j \in 1..Len(instructions[k].out_binders) : flags[instructions[k].out_binders[j]])
                        <=> Unknown(instructions[k])
                  /\ Unknown(instructions[k]) =>
                        /\ instructions[k] \in Range(instructions2)
                        /\ instructions[k] \notin Range(instructions1)
                  /\ Known(instructions[k]) =>
                        /\ instructions[k] \in Range(instructions1)
                        /\ instructions[k] \notin Range(instructions2)
            /\ instructions1 = SelectSeq(instructions, Known)
            /\ instructions2 = SelectSeq(instructions, Unknown)

\* an instruction that reads an unknown Var and a literal comes first and goes to program2;
\* the instruction after it reads known inputs only and goes to program1
C18_Witness ==
    /\ pe_rec.called
    /\ pe_rec.result.err = "none"
    /\ Len(program.instructions) = 2
    /\ pe_rec.result.program2.instructions = <<program.instructions[1]>>
    /\ pe_rec.result.program1.instructions = <<program.instructions[2]>>
    /\ \E i \in 1..Len(program.instructions[1].inputs) : program.instructions[1].inputs[i].kind = "Lit"

-----------------------------------------------------------------------------
(* C19 *)

\* the input binders of program2 that come before those of the unknown inputs
Residuals ==
    LET in_binders == pe_rec.result.program2.in_binders
        ins2 == partition_list(pe_rec.in_unknowns, program.in_binders)[2]
    IN  SubSeq(in_binders, 1, Len(in_binders) - Len(ins2))

\* the Vars the instructions of program2 read that are known: flagged known, or made by the
\* rule of jit_op to carry a residual of the inner Program
KnownVarsRead ==
    LET instructions2 == pe_rec.result.program2.instructions
        flags == UnknownFlags
    IN  {x \in UNION {Range(instructions2[k].inputs) : k \in 1..Len(instructions2)} :
            x.kind = "Var" /\ (x \in DOMAIN flags => ~flags[x])}

\* C19: partial_run_program returns, and in its result every known Var that an instruction
\* of program2 reads is a residual; the outputs of program1 are the known outputs followed
\* by the residuals, the input binders of program2 are the residuals, in the same order,
\* followed by the unknown input binders; the count returned is the number of residuals, no
\* residual is listed twice, and program1 and program2 pass typecheck_program.
C19_Residuals ==
    pe_rec.called =>
        LET result == pe_rec.result
            ins2 == partition_list(pe_rec.in_unknowns, program.in_binders)[2]
            outs1 == partition_list(result.out_unknowns, program.outs)[1]
        IN  /\ result.err = "none"
            /\ KnownVarsRead \subseteq Range(Residuals)
            /\ result.program1.outs = outs1 \o Residuals
            /\ result.program2.in_binders = Residuals \o ins2
            /\ result.num_res = Len(Residuals)
            /\ \A i, j \in 1..Len(Residuals) : Residuals[i] = Residuals[j] => i = j
            /\ typecheck_program(result.program1).err = "none"
            /\ typecheck_program(result.program2).err = "none"

\* two residuals after a known output: a Var of the Program that an instruction of program2
\* reads, and a Var made by the rule of jit_op
C19_Witness ==
    /\ pe_rec.called
    /\ pe_rec.result.err = "none"
    /\ pe_rec.result.num_res = 2
    /\ Len(pe_rec.result.program1.outs) = 3
    /\ \E i, j \in 1..2 : Residuals[i].id < 10 /\ Residuals[j].id > 10
    /\ Residuals[1] \in KnownVarsRead
    /\ Residuals[2] \in KnownVarsRead

-----------------------------------------------------------------------------
(* C20 *)

\* the outputs of program1 that come after the known outputs
ResidualsReturned ==
    LET outs == pe_rec.result.program1.outs
        outs1 == partition_list(pe_rec.result.out_unknowns, program.outs)[1]
    IN  SubSeq(outs, Len(outs1) + 1, Len(outs))

\* C20: when partial_run_program is given instantiate, it returns, and every output that
\* instantiate marks is reported unknown and is an output of program2; a marked output that
\* is a Var flagged known by propagation is a residual: program1 returns it after its known
\* outputs and program2 has it among the input binders that come before those of the
\* unknown inputs; an output that instantiate does not mark is reported with the flag
\* propagation gave it.
C20_Instantiate ==
    pe_rec.called /\ pe_rec.instantiate.given =>
        LET result == pe_rec.result
            instantiate == pe_rec.instantiate.flags
            propagated == read_unk(UnknownFlags, program.outs)
        IN  /\ result.err = "none"
            /\ \A i \in 1..Len(program.outs) :
                  /\ instantiate[i] =>
                        /\ result.out_unknowns[i]
                        /\ program.outs[i] \in Range(result.program2.outs)
                  /\ instantiate[i] /\ ~propagated[i] /\ program.outs[i].kind = "Var" =>
                        /\ program.outs[i] \in Range(ResidualsReturned)
                        /\ program.outs[i] \in Range(Residuals)
                  /\ ~instantiate[i] => result.out_unknowns[i] = propagated[i]

\* of two outputs that are known Vars, the one instantiate marks is a residual and an output
\* of program2, and the other stays a known output of program1
C20_Witness ==
    /\ pe_rec.called
    /\ pe_rec.instantiate.given
    /\ pe_rec.result.err = "none"
    /\ Len(program.outs) = 2
    /\ program.outs[1].kind = "Var"
    /\ program.outs[2].kind = "Var"
    /\ program.outs[1] # program.outs[2]
    /\ pe_rec.instantiate.flags = <<TRUE, FALSE>>
    /\ pe_rec.result.out_unknowns = <<TRUE, FALSE>>
    /\ read_unk(UnknownFlags, program.outs) = <<FALSE, FALSE>>
    /\ program.outs[1] \in Range(Residuals)
    /\ pe_rec.result.program2.outs = <<program.outs[1]>>

-----------------------------------------------------------------------------
(* C21 *)

RECURSIVE QSum(_)
QSum(vals) == IF vals = <<>> THEN Q(0) ELSE QAdd(Head(vals), QSum(Tail(vals)))

\* the contributions to the cotangent of v among vals, one for each place where v stands
\* in atoms and the value is not None
RECURSIVE Contributions(_, _, _)
Contributions(atoms, vals, v) ==
    IF atoms = <<>> THEN <<>>
    ELSE (IF Head(atoms) = v /\ Head(vals) # None THEN <<Head(vals)>> ELSE <<>>)
         \o Contributions(Tail(atoms), Tail(vals), v)

\* the contributions to v of the Program outputs and of the first k instructions visited
RECURSIVE ContributionsBefore(_, _)
ContributionsBefore(k, v) ==
    IF k = 0 THEN Contributions(program.outs, ct_rec.cotangents, v)
    ELSE ContributionsBefore(k - 1, v)
         \o Contributions(ct_rec.result.log[k].instruction.inputs, ct_rec.result.log[k].cts_out, v)

\* C21: run_program_transposed visits the instructions last to first; the cotangent it reads
\* for an output Var of an instruction is the sum of the contributions of every use of the
\* Var, among the inputs of the instructions that come later in the Program and among the
\* Program outputs, and a zero when the Var has no use; once the cotangent of a Var is read,
\* no instruction visited afterwards contributes to it.
C21_CotangentsSummed ==
    ct_rec.called =>
        LET log == ct_rec.result.log
            n == Len(program.instructions)
        IN  /\ Len(log) <= n
            /\ ct_rec.result.err = "none" => Len(log) = n
            /\ \A p \in 1..Len(log) :
                  /\ log[p].instruction = program.instructions[n + 1 - p]
                  /\ \A o \in 1..Len(log[p].instruction.out_binders) :
                        /\ log[p].cts_in[o]
                              = QSum(ContributionsBefore(p - 1, log[p].instruction.out_binders[o]))
                        /\ \A q \in (p + 1)..Len(log) :
                              Contributions(log[q].instruction.inputs, log[q].cts_out,
                                            log[p].instruction.out_binders[o]) = <<>>

\* the output of the first instruction is used twice by the second and once among the
\* Program outputs, and the output of the second has no use: the first reads the sum of three
\* contributions and the second reads a zero
C21_Witness ==
    /\ ct_rec.called
    /\ ct_rec.result.err = "none"
    /\ Len(ct_rec.result.log) = 2
    /\ Len(ContributionsBefore(1, program.instructions[1].out_binders[1])) = 3
    /\ ct_rec.result.log[2].cts_in[1] # Q(0)
    /\ ContributionsBefore(0, program.instructions[2].out_binders[1]) = <<>>
    /\ ct_rec.result.log[1].cts_in[1] = Q(0)

-----------------------------------------------------------------------------
(* C22 *)

\* C22: for every acyclic graph, toposort returns a list in which each node comes after all
\* of its parents, and it returns only after check_toposort has found the list in that order:
\* the call does not end with the AssertionError of that check.
C22_ParentsFirst ==
    ts_rec.called =>
        LET nodes == ts_rec.result.nodes
        IN  /\ ts_rec.result.err = "none"
            /\ \A i \in 1..Len(nodes) : \A parent \in Range(dag[nodes[i]]) :
                  /\ \E j \in 1..(i - 1) : nodes[j] = parent
                  /\ \A j \in i..Len(nodes) : nodes[j] # parent

\* a diamond: node 4 has the parents 3 and 2, and both have the parent 1
C22_Witness ==
    /\ ts_rec.called
    /\ ts_rec.out_nodes = <<4>>
    /\ Range(dag[4]) = {2, 3}
    /\ dag[3] = <<1>>
    /\ dag[2] = <<1>>
    /\ Len(ts_rec.result.nodes) = 4
    /\ ts_rec.result.nodes[1] = 1
    /\ ts_rec.result.nodes[4] = 4

-----------------------------------------------------------------------------
(* C29 *)

\* the nodes reachable from the nodes of S through parents, in at most k steps
RECURSIVE ReachableWithin(_, _)
ReachableWithin(S, k) ==
    IF k = 0 THEN S
    ELSE ReachableWithin(S \cup UNION {Range(dag[n]) : n \in S}, k - 1)

\* C29: for every acyclic graph, toposort returns the nodes reachable from out_nodes through
\* parents, each of them once and no other node, also when out_nodes lists a node several
\* times, when an output node is a parent of another output node, and when a node lists a
\* parent twice; for empty out_nodes it returns the empty list.
C29_ReachableOnce ==
    ts_rec.called =>
        LET nodes == ts_rec.result.nodes
        IN  /\ ts_rec.result.err = "none"
            /\ Range(nodes) = ReachableWithin(Range(ts_rec.out_nodes), MaxNodes)
            /\ Cardinality(Range(nodes)) = Len(nodes)
            /\ ts_rec.out_nodes = <<>> => nodes = <<>>

\* out_nodes lists node 3 twice and its parent 2 as well, and node 3 lists the parent 2 twice
C29_Witness ==
    /\ ts_rec.called
    /\ ts_rec.out_nodes = <<3, 2, 3>>
    /\ dag[3] = <<2, 2>>
    /\ dag[2] = <<1>>
    /\ ts_rec.result.nodes = <<1, 2, 3>>

-----------------------------------------------------------------------------
(* C23 *)

\* the Vars of the constants collected, in the order they were collected
ConstVars == [i \in 1..Len(builder.constvals) |-> builder.constvals[i].var]

\* no entry of the list stands in it twice
Distinct(lst) == \A i, j \in 1..Len(lst) : i # j => lst[i] # lst[j]

\* the Vars a Program reads: the inputs of its instructions and its outputs
VarsRead(prog) ==
    {x \in Range(prog.outs) \cup UNION {Range(prog.instructions[k].inputs) :
                                            k \in 1..Len(prog.instructions)} : x.kind = "Var"}

\* C23: after any sequence of new_arg, pure and run_op on one ProgramBuilder, the output
\* binders of the instructions appended are pairwise different and different from the Var of
\* every argument and of every constant; and in the Program build returns, every Var is bound
\* once, by one input binder or by one instruction output.
C23_FreshBinders ==
    /\ Distinct(ConstVars \o ParamVars \o BoundVars(builder.instructions))
    /\ \A k \in 1..Len(builder.instructions) : Len(builder.instructions[k].out_binders) >= 1
    /\ build_rec.called /\ build_rec.result.err = "none" =>
          LET built == build_rec.result.program
              binders == built.in_binders \o BoundVars(built.instructions)
          IN  /\ Distinct(binders)
              /\ VarsRead(built) \subseteq Range(binders)

\* a Program was built from a trace with an argument, a constant that stays an input, and
\* two instructions, the second reading the output of the first
C23_Witness ==
    /\ build_rec.called
    /\ build_rec.result.err = "none"
    /\ Len(builder_tracers_in) = 1
    /\ build_rec.result.num_consts = 1
    /\ Len(builder.instructions) = 2
    /\ builder.instructions[1].out_binders[1] \in Range(builder.instructions[2].inputs)
    /\ Len(build_rec.result.program.in_binders) = 2

-----------------------------------------------------------------------------
(* C28 *)

\* the MainTrace of the innermost make_program that is open among the frames fs, if any
RECURSIVE InnermostStaging(_)
InnermostStaging(fs) ==
    IF fs = <<>> THEN NoMain
    ELSE IF fs[Len(fs)].entry = "make_program" THEN fs[Len(fs)].main
    ELSE InnermostStaging(SubSeq(fs, 1, Len(fs) - 1))

\* C28: the dynamic-trace pointer is the MainTrace of the innermost make_program whose
\* with-block is open, and None when there is none; whenever it is set it is on the trace
\* stack; and when make_program is left, by a return or by an exception, inside another
\* make_program or not, the pointer and the trace stack have the values they had before the
\* call. The other entry points leave the pointer alone.
C28_DynamicScoped ==
    /\ dynamic_trace = InnermostStaging(frames)
    /\ dynamic_trace # NoMain => \E i \in 1..Len(trace_stack) : trace_stack[i] = dynamic_trace
    /\ \A i \in 1..Len(frames) :
          frames[i].prev_dynamic_trace = InnermostStaging(SubSeq(frames, 1, i - 1))
    /\ exit_rec.entry # "none" =>
          /\ exit_rec.dynamic_after = exit_rec.dynamic_before
          /\ exit_rec.dynamic_after = dynamic_trace
          /\ exit_rec.after = exit_rec.before
          /\ exit_rec.after = trace_stack

\* a make_program that ran inside another make_program was left by an exception: the pointer
\* is the MainTrace of the outer one again
C28_Witness ==
    /\ exit_rec.entry = "make_program"
    /\ exit_rec.raised
    /\ exit_rec.dynamic_before # NoMain
    /\ dynamic_trace = exit_rec.dynamic_before
    /\ dynamic_trace.trace_type = "ProgramTrace"
    /\ dynamic_trace = trace_stack[Len(trace_stack)]

-----------------------------------------------------------------------------
(* C30 *)

\* calls i and j were handed arguments of equal avals
SameAvals(i, j) ==
    /\ Len(jit_calls[i].args) = Len(jit_calls[j].args)
    /\ \A k \in 1..Len(jit_calls[i].args) :
          /\ jit_calls[i].args[k].shape = jit_calls[j].args[k].shape
          /\ jit_calls[i].args[k].dtype = jit_calls[j].args[k].dtype

\* calls i and j were handed the same static arguments: the same values under the same names
SameStaticArgs(i, j) == Range(jit_calls[i].kwargs) = Range(jit_calls[j].kwargs)

\* calls i and j were handed the same keywords in the same order with values that are equal
\* for Python, which takes True for 1
SameStaticTuple(i, j) ==
    /\ Len(jit_calls[i].kwargs) = Len(jit_calls[j].kwargs)
    /\ \A k \in 1..Len(jit_calls[i].kwargs) :
          /\ jit_calls[i].kwargs[k].k = jit_calls[j].kwargs[k].k
          /\ jit_calls[i].kwargs[k].v.num = jit_calls[j].kwargs[k].v.num

-----------------------------------------------------------------------------
(* C24 *)

\* the objects lifted so far, each once, in the order of their first lift
RECURSIVE FirstLifts(_)
FirstLifts(lifts) ==
    IF lifts = <<>> THEN <<>>
    ELSE LET before == FirstLifts(SubSeq(lifts, 1, Len(lifts) - 1))
             last == lifts[Len(lifts)].val
         IN  IF \E i \in 1..Len(before) : before[i].id = last.id THEN before
             ELSE Append(before, last)

\* the constants that stay inputs of the built Program: no Python scalars of shape ()
KeptObjects == SelectSeq(FirstLifts(lifted), LAMBDA val : ~(val.python /\ val.shape = <<>>))

\* the Var the builder made for the tracer of a lifted object
ConstVarOf(val) == builder.tracer_to_var[builder.const_tracers[val.id]]

\* the statement as it is written: constants of one value share one leading input Var, so no
\* two of the constants of a built Program have the same value
C24_ByValue ==
    build_rec.called /\ build_rec.result.err = "none" =>
       \A i, j \in 1..Len(build_rec.result.consts) :
          build_rec.result.consts[i].val = build_rec.result.consts[j].val => i = j

\* C24: the constants of a ProgramBuilder are told apart by the object, not by the value.
\* pure returns the same tracer, with the same Var, each time it is handed the same object,
\* and a new tracer with a new Var for an object it has not seen, whatever its value. The
\* built Program has one leading input Var for each object lifted that is not a Python scalar
\* of shape (), in the order of the first lifts, and every instruction that reads the
\* constant reads that Var.
C24_ConstsByObject ==
    /\ \A i, j \in 1..Len(lifted) :
          lifted[i].val.id = lifted[j].val.id <=> lifted[i].tracer = lifted[j].tracer
    /\ [k \in 1..Len(builder.constvals) |-> builder.constvals[k].val] = FirstLifts(lifted)
    /\ \A k \in 1..Len(builder.constvals) :
          builder.constvals[k].var = ConstVarOf(builder.constvals[k].val)
    /\ \A i \in 1..Len(lifted) : lifted[i].tracer = builder.const_tracers[lifted[i].val.id]
    /\ build_rec.called /\ build_rec.result.err = "none" =>
          /\ build_rec.result.consts = KeptObjects
          /\ build_rec.result.num_consts = Len(KeptObjects)
          /\ SubSeq(build_rec.result.program.in_binders, 1, Len(KeptObjects))
                = [k \in 1..Len(KeptObjects) |-> ConstVarOf(KeptObjects[k])]
          /\ \A k \in 1..Len(KeptObjects) :
                Cardinality({i \in 1..Len(build_rec.result.program.in_binders) :
                               build_rec.result.program.in_binders[i] = ConstVarOf(KeptObjects[k])}) = 1

\* a Tensor was lifted twice and another Tensor of the same value once; an add instruction
\* reads the first constant twice, and the built Program has two leading constant inputs of
\* equal value
C24_Witness ==
    /\ build_rec.called
    /\ build_rec.result.err = "none"
    /\ Len(lifted) = 3
    /\ lifted[1].val = lifted[3].val
    /\ lifted[1].val.id = 3
    /\ lifted[2].val.id = 4
    /\ build_rec.result.num_consts = 2
    /\ Len(builder.instructions) = 1
    /\ builder.instructions[1].inputs = <<ConstVarOf(lifted[1].val), ConstVarOf(lifted[1].val)>>
    /\ build_rec.result.program.instructions = builder.instructions

-----------------------------------------------------------------------------
(* C25 *)

\* the Program build hands to _inline_literals, and its constants
BuiltProgram ==
    Program(ConstVars \o ParamVars, builder.instructions,
            [i \in 1..Len(build_rec.out_tracers) |-> builder.tracer_to_var[build_rec.out_tracers[i]]])

BuiltConsts == [k \in 1..Len(builder.constvals) |-> builder.constvals[k].val]

\* the places of the constants that are Python scalars of shape ()
ScalarPlaces == {k \in 1..Len(BuiltConsts) : BuiltConsts[k].python /\ BuiltConsts[k].shape = <<>>}

\* the entries of lst at the places not in `places`, in their order
RECURSIVE Without(_, _)
Without(lst, places) ==
    IF lst = <<>> THEN <<>>
    ELSE LET before == Without(SubSeq(lst, 1, Len(lst) - 1), places)
         IN  IF Len(lst) \in places THEN before ELSE Append(before, lst[Len(lst)])

\* what _inline_literals is to put where the atom x stood
Inlined(x) ==
    IF \E k \in ScalarPlaces : ConstVars[k] = x
    THEN Lit(BuiltConsts[CHOOSE k \in ScalarPlaces : ConstVars[k] = x].val)
    ELSE x

\* C25: of a Program that passed typecheck_program, _inline_literals removes from the input
\* binders exactly the constants that are Python scalars of shape (), puts a Lit holding the
\* value wherever an instruction input or a Program output was such a binder, leaves the
\* other atoms, the operators, params and output binders as they were, keeps the remaining
\* constants and the parameters in their order, sets num_consts to the number of remaining
\* constants, and returns a Program that passes typecheck_program.
C25_InlineLiterals ==
    build_rec.called /\ typecheck_program(BuiltProgram).err = "none" =>
       LET result == build_rec.result
           new_program == result.program
       IN  /\ result.err = "none"
           /\ new_program.in_binders = Without(ConstVars, ScalarPlaces) \o ParamVars
           /\ result.consts = Without(BuiltConsts, ScalarPlaces)
           /\ result.num_consts = Len(BuiltConsts) - Cardinality(ScalarPlaces)
           /\ Len(new_program.instructions) = Len(builder.instructions)
           /\ \A k \in 1..Len(builder.instructions) :
                 /\ new_program.instructions[k].op = builder.instructions[k].op
                 /\ new_program.instructions[k].params = builder.instructions[k].params
                 /\ new_program.instructions[k].out_binders = builder.instructions[k].out_binders
                 /\ new_program.instructions[k].inputs =
                       [i \in 1..Len(builder.instructions[k].inputs) |->
                           Inlined(builder.instructions[k].inputs[i])]
           /\ new_program.outs = [i \in 1..Len(BuiltProgram.outs) |-> Inlined(BuiltProgram.outs[i])]
           /\ typecheck_program(new_program).err = "none"

\* a Python float and a Tensor were lifted in this order and a parameter was declared; the
\* float is read by an instruction and returned, and the built Program has the Tensor's Var
\* and the parameter as inputs and literals where the float was read
C25_Witness ==
    /\ build_rec.called
    /\ build_rec.result.err = "none"
    /\ Len(builder_tracers_in) = 1
    /\ Len(BuiltConsts) = 2
    /\ ScalarPlaces = {1}
    /\ build_rec.result.num_consts = 1
    /\ \E k \in 1..Len(builder.instructions) : ConstVars[1] \in Range(builder.instructions[k].inputs)
    /\ ConstVars[1] \in Range(BuiltProgram.outs)
    /\ \E i \in 1..Len(build_rec.result.program.outs) : build_rec.result.program.outs[i].kind = "Lit"

-----------------------------------------------------------------------------
(* C26 *)

\* the operands of the last bind, raised to its top trace
BindTracers == [i \in 1..Len(bind_rec.xs) |-> full_raise(bind_rec.top, bind_rec.xs[i])]

\* the last bind called run_op of a PartialEvalTrace
PartialEvalRunOp ==
    /\ bind_rec.called
    /\ bind_rec.top.trace_type = "PartialEvalTrace"
    /\ ~RaisedAll(BindTracers)

\* every tracer handed to that run_op is known
AllKnown == \A i \in 1..Len(BindTracers) : BindTracers[i].val.bare

\* what that run_op returned
RunOpReturned ==
    run_op(trace_stack, dynamic_trace, bind_rec.top, [i \in 1..Len(BindTracers) |-> BindTracers[i].val])

\* the tracers of the trace under way that have an InstructionDraft
DraftedTracers == {t \in 1..Len(pe_trace.tracers) : pe_trace.tracers[t].draft = "InstructionDraft"}

-----------------------------------------------------------------------------
(* C27 *)

\* a tracer that carries nothing beyond the value it wraps: a BatchTracor whose batch axis is
\* None, a PartialEvalTracor that is known
Uninformative(val) ==
    val.tracer /\ val.bare /\ val.main.trace_type \in {"BatchTrace", "PartialEvalTrace"}

\* val, the value it wraps, the value that one wraps, and so on
RECURSIVE Inside(_)
Inside(val) == {val} \cup (IF val.tracer /\ val.inner # <<>> THEN Inside(val.inner[1]) ELSE {})

\* lowered is what is left of val when the uninformative wrappers around it are taken off
LoweredFrom(val, lowered) ==
    /\ lowered \in Inside(val)
    /\ ~Uninformative(lowered)
    /\ \A w \in Inside(val) : w # lowered /\ lowered \in Inside(w) => Uninformative(w)

\* C27: full_lower replaces a BatchTracor whose batch axis is None by the value it wraps
\* and a known PartialEvalTracor by its constant, again and again, and returns a JVPTracor
\* as it is. What bind returns is what its run_op returned with full_lower applied, so bind
\* returns no BatchTracor whose batch axis is None. The known tracers a
\* PartialEvalTrace.run_op lowers before it evaluates eagerly are replaced by their
\* constants in the same way.
C27_FullLower ==
    /\ lower_rec.called =>
          /\ LoweredFrom(lower_rec.val, lower_rec.result)
          /\ lower_rec.val.tracer /\ lower_rec.val.main.trace_type = "JVPTrace" =>
                lower_rec.result = lower_rec.val
    /\ bind_rec.called /\ ~RaisedAll(BindTracers) /\ ~RunOpReturned.raised =>
          /\ ~bind_rec.result.raised
          /\ LoweredFrom(RunOpReturned.val, bind_rec.result.val)
          /\ RunOpReturned.val.tracer /\ RunOpReturned.val.main.trace_type = "JVPTrace" =>
                bind_rec.result.val = RunOpReturned.val
    /\ bind_rec.called /\ ~bind_rec.result.raised =>
          ~(/\ bind_rec.result.val.tracer
            /\ bind_rec.result.val.main.trace_type = "BatchTrace"
            /\ bind_rec.result.val.bare)
    /\ PartialEvalRunOp /\ AllKnown =>
          \A i \in 1..Len(BindTracers) :
             LoweredFrom(BindTracers[i].val.inner[1], full_lower(BindTracers[i].val))

\* a BatchTrace is open above a JVPTrace and full_lower is handed a BatchTracor with batch
\* axis None around a JVPTracor: it returns the JVPTracor
C27_Witness ==
    /\ lower_rec.called
    /\ Uninformative(lower_rec.val)
    /\ lower_rec.val.main.trace_type = "BatchTrace"
    /\ lower_rec.result = lower_rec.val.inner[1]
    /\ lower_rec.result.tracer
    /\ lower_rec.result.main.trace_type = "JVPTrace"

====
